---- MODULE Spec2Model ----
(***************************************************************************)
(* Reward-distribution accounting of x/distribution/keeper/delegation.go:  *)
(* initializeDelegation, calculateDelegationRewardsBetween,                *)
(* CalculateDelegationRewards and withdrawDelegationRewards, for one       *)
(* validator and its delegators.                                           *)
(*                                                                         *)
(* Decimals (LegacyDec) are integers scaled by DecUnit; decimal coin       *)
(* vectors (DecCoins) are functions from Denoms to scaled integers, a      *)
(* denomination with amount 0 being absent from the vector.                *)
(***************************************************************************)
EXTENDS Integers, Sequences, FiniteSets, TLC

\* ------------------------------------------------------------------ bounds
MaxPeriod == 5        \* period endings are disabled from this period on
MaxHeight == 3        \* last block height
MaxSlashes == 2       \* number of slash events

\* ------------------------------------------------------- program constants
DecUnit == 100        \* scaled representation of the decimal 1 (LegacyOneDec)
MarginUnits == 3      \* sdk.SmallestDec().MulInt64(3)
PatchMarginPrec == 12 \* sdk.NewDecWithPrec(12, 3), in thousandths

Denoms == {"ubtsg"}
Delegators == {"d1", "d2"}
DefaultBondDenom == "ubtsg"

\* inputs of the environment
BondAmount == [d1 |-> 100, d2 |-> 30] \* whole tokens a delegator bonds
AllocAmounts == {10 * DecUnit}       \* decimal rewards allocated at once: 10
SlashFractions == {50}               \* slash fraction 0.5

\* ------------------------------------------------------- decimal arithmetic
ZeroCoins == [x \in Denoms |-> 0]

Min(a, b) == IF a <= b THEN a ELSE b

\* F applied to the value of val: names an intermediate result once
Bind(val, F(_)) == CHOOSE r \in {F(v) : v \in {val}} : TRUE

\* DecCoins.Add
CoinsAdd(a, b) == [x \in Denoms |-> a[x] + b[x]]

\* DecCoins.Sub
CoinsSub(a, b) == [x \in Denoms |-> a[x] - b[x]]

\* DecCoins.IsAnyNegative
IsAnyNegative(a) == \E x \in Denoms : a[x] < 0

\* DecCoins.IsZero / Coins.IsZero
CoinsIsZero(a) == \A x \in Denoms : a[x] = 0

\* DecCoins.MulDecTruncate: per coin, amount * d truncated to the precision
MulDecTruncate(a, d) == [x \in Denoms |-> (a[x] * d) \div DecUnit]

\* DecCoins.QuoDecTruncate: per coin, amount / d truncated to the precision
QuoDecTruncate(a, d) == [x \in Denoms |-> (a[x] * DecUnit) \div d]

\* LegacyDec.MulTruncate
MulTruncate(a, b) == (a * b) \div DecUnit

\* DecCoins.Intersect: per coin the minimum of both amounts
Intersect(a, b) == [x \in Denoms |-> Min(a[x], b[x])]

\* DecCoins.TruncateDecimal: whole coins and the fractional change
TruncateDecimal(a) ==
    [coins  |-> [x \in Denoms |-> a[x] \div DecUnit],
     change |-> [x \in Denoms |-> a[x] - (a[x] \div DecUnit) * DecUnit]]

\* LegacyDec.Quo of two scaled decimals, rounded half to even
QuoRound(a, b) ==
    LET n == a * DecUnit
        q == n \div b
        r == n - q * b
    IN  IF 2 * r > b \/ (2 * r = b /\ q % 2 = 1) THEN q + 1 ELSE q

\* LegacyDec.Mul by a decimal given in thousandths, rounded half to even
MulPrec3(a, m) ==
    LET n == a * m
        q == n \div 1000
        r == n - q * 1000
    IN  IF 2 * r > 1000 \/ (2 * r = 1000 /\ q % 2 = 1) THEN q + 1 ELSE q

\* LegacyDec.QuoTruncate of two scaled decimals
QuoTruncate(a, b) == (a * DecUnit) \div b

\* ------------------------------------------------------------------- state
VARIABLES
    height,        \* ctx.BlockHeight()
    curPeriod,     \* ValidatorCurrentRewards.Period
    curRewards,    \* ValidatorCurrentRewards.Rewards
    hist,          \* period -> ValidatorHistoricalRewards, for the stored periods
    startInfo,     \* delegator -> DelegatorStartingInfo, for the stored pairs
    slashEvents,   \* set of ValidatorSlashEvent with their height
    outstanding,   \* ValidatorOutstandingRewards.Rewards
    communityPool, \* FeePool.CommunityPool
    valTokens,     \* validator.Tokens (whole tokens)
    valShares,     \* validator.DelegatorShares (decimal)
    delShares,     \* delegator -> delegation.Shares (decimal)
    periodEnded,   \* a period ending has occurred and no reward was allocated since
    lastCall,      \* the operation of the last step with its inputs and results
    phase,         \* position in the block: "alloc", "slash" or "txs"
    allocated,     \* total rewards ever allocated to the validator
    paid,          \* total coins ever transferred to the delegators
    activeValidatorSet, \* doMainLoop: WeightedValidators, a sequence
    valsetHistory, \* doMainLoop: *ValSetHistory
    futureOpsReg   \* doMainLoop: *FutureOpsRegistry, the skip list by key order

storeVars == <<curPeriod, curRewards, hist, startInfo, slashEvents,
               outstanding, communityPool>>
stakingVars == <<valTokens, valShares, delShares>>
\* the state of the simulation runner
simVars == <<activeValidatorSet, valsetHistory, futureOpsReg>>
vars == <<height, curPeriod, curRewards, hist, startInfo, slashEvents,
          outstanding, communityPool, valTokens, valShares, delShares,
          periodEnded, lastCall, phase, allocated, paid,
          activeValidatorSet, valsetHistory, futureOpsReg>>

\* NewValSetHistory: the history starts at height 1.  adds is no field of
\* the struct: it counts the calls of Add, to state properties
NewValSetHistory(maxElements) ==
    [maxElements |-> maxElements, blockOffset |-> 1, vals |-> <<>>, adds |-> 0]

\* NewFutureOpsRegistry: an empty skip list created with the key type
\* skiplist.Int64.  Its keys are time.Time values; what the comparison of
\* the key type Int64 makes of them is the library's: int64OnTime is
\* "panic" when it rejects a key that is no integer and "equal" when it
\* gives every such key the same value.  log and delivered are no fields
\* of the struct: the operations stored by Add so far, numbered, and the
\* numbers of those that FindScheduled has returned.
NewFutureOpsRegistry(int64OnTime) ==
    [list |-> <<>>, comparable |-> "Int64", int64OnTime |-> int64OnTime,
     log |-> <<>>, delivered |-> {}]

\* the simulation runner is not running: NewValSet(), a history of one
\* element and NewFutureOpsRegistry()
NoSims ==
    /\ activeValidatorSet = <<>>
    /\ valsetHistory = NewValSetHistory(1)
    /\ futureOpsReg = NewFutureOpsRegistry("equal")

\* addresses patched after the v018 upgrade
SLASHED_VALIDATORS == {"val2"}
SLASHED_DELEGATORS == {"d2"}

\* the validator whose rewards are distributed, and another one
ValidatorAddr == "val1"
OtherValidatorAddr == "val2"

\* the store of the keeper and the staking state it reads, as one value
Store ==
    [period      |-> curPeriod,
     rewards     |-> curRewards,
     hist        |-> hist,
     info        |-> startInfo,
     slashes     |-> slashEvents,
     outstanding |-> outstanding,
     pool        |-> communityPool,
     tokens      |-> valTokens,
     valShares   |-> valShares,
     shares      |-> delShares,
     validator   |-> ValidatorAddr,
     fault       |-> FALSE]

\* ------------------------------------------------------- store accessors
ZeroHistorical == [ratio |-> ZeroCoins, rc |-> 0]

\* GetValidatorHistoricalRewards: a missing record reads as the zero value
GetValidatorHistoricalRewards(s, p) ==
    IF p \in DOMAIN s.hist THEN s.hist[p] ELSE ZeroHistorical

\* SetValidatorHistoricalRewards
SetValidatorHistoricalRewards(s, p, rec) ==
    [s EXCEPT !.hist = [q \in (DOMAIN s.hist) \cup {p} |->
                            IF q = p THEN rec ELSE s.hist[q]]]

\* DeleteValidatorHistoricalReward
DeleteValidatorHistoricalReward(s, p) ==
    [s EXCEPT !.hist = [q \in (DOMAIN s.hist) \ {p} |-> s.hist[q]]]

\* HasDelegatorStartingInfo
HasDelegatorStartingInfo(s, d) == d \in DOMAIN s.info

\* SetDelegatorStartingInfo
SetDelegatorStartingInfo(s, d, rec) ==
    [s EXCEPT !.info = [e \in (DOMAIN s.info) \cup {d} |->
                            IF e = d THEN rec ELSE s.info[e]]]

\* DeleteDelegatorStartingInfo
DeleteDelegatorStartingInfo(s, d) ==
    [s EXCEPT !.info = [e \in (DOMAIN s.info) \ {d} |-> s.info[e]]]

\* variant: the record is written afresh with the incremented count
incrementReferenceCount_FreshRecord(s, p) ==
    LET h == GetValidatorHistoricalRewards(s, p)
    IN  SetValidatorHistoricalRewards(s, p, [ratio |-> ZeroCoins, rc |-> h.rc + 1])

\* incrementReferenceCount
incrementReferenceCount(s, p) ==
    LET h == GetValidatorHistoricalRewards(s, p)
    IN  SetValidatorHistoricalRewards(s, p, [h EXCEPT !.rc = h.rc + 1])

\* decrementReferenceCount: the count never goes below zero (fault); the
\* record is deleted when the count reaches zero
decrementReferenceCount(s, p) ==
    LET h == GetValidatorHistoricalRewards(s, p)
    IN  IF h.rc = 0 THEN [s EXCEPT !.fault = TRUE]
        ELSE IF h.rc - 1 = 0 THEN DeleteValidatorHistoricalReward(s, p)
        ELSE SetValidatorHistoricalRewards(s, p, [h EXCEPT !.rc = h.rc - 1])

\* validator.TokensFromShares: shares * tokens / delegatorShares, rounded
TokensFromShares(s, sh) == QuoRound(sh * s.tokens, s.valShares)

\* validator.TokensFromSharesTruncated
TokensFromSharesTruncated(s, sh) == QuoTruncate(sh * s.tokens, s.valShares)

\* ------------------------------------------------------ 4.1 period ending
\* IncrementValidatorPeriod: snapshot the current rewards into the historical
\* entry of the current period and open the next period; returns the store
\* and the period just closed.  With no validator tokens no ratio can be
\* computed and the current rewards go to the community pool instead.

\* variant: the new ratio is not added to the ratio of the previous period
IncrementValidatorPeriod_RatioNotCumulative(s) ==
    LET zero    == s.tokens = 0
        current == IF zero THEN ZeroCoins
                   ELSE QuoDecTruncate(s.rewards, s.tokens * DecUnit)
    IN  Bind(IF zero
             THEN [s EXCEPT !.pool = CoinsAdd(s.pool, s.rewards),
                            !.outstanding = CoinsSub(s.outstanding, s.rewards)]
             ELSE s, LAMBDA s1 :
        Bind(decrementReferenceCount(s1, s.period - 1), LAMBDA s2 :
        [s |-> IF s2.fault THEN s2
               ELSE [SetValidatorHistoricalRewards(s2, s.period,
                        [ratio |-> current, rc |-> 1])
                     EXCEPT !.rewards = ZeroCoins, !.period = s.period + 1],
         period |-> s.period]))

\* variant: the new ratio is added to the ratio of the period before the
\* previous one
IncrementValidatorPeriod_RatioBeforePrevious(s) ==
    LET zero    == s.tokens = 0
        current == IF zero THEN ZeroCoins
                   ELSE QuoDecTruncate(s.rewards, s.tokens * DecUnit)
        historical == GetValidatorHistoricalRewards(s, s.period - 2).ratio
    IN  Bind(IF zero
             THEN [s EXCEPT !.pool = CoinsAdd(s.pool, s.rewards),
                            !.outstanding = CoinsSub(s.outstanding, s.rewards)]
             ELSE s, LAMBDA s1 :
        Bind(decrementReferenceCount(s1, s.period - 1), LAMBDA s2 :
        [s |-> IF s2.fault THEN s2
               ELSE [SetValidatorHistoricalRewards(s2, s.period,
                        [ratio |-> CoinsAdd(historical, current), rc |-> 1])
                     EXCEPT !.rewards = ZeroCoins, !.period = s.period + 1],
         period |-> s.period]))

IncrementValidatorPeriod(s) ==
    LET zero    == s.tokens = 0
        current == IF zero THEN ZeroCoins
                   ELSE QuoDecTruncate(s.rewards, s.tokens * DecUnit)
        historical == GetValidatorHistoricalRewards(s, s.period - 1).ratio
    IN  Bind(IF zero
             THEN [s EXCEPT !.pool = CoinsAdd(s.pool, s.rewards),
                            !.outstanding = CoinsSub(s.outstanding, s.rewards)]
             ELSE s, LAMBDA s1 :
        Bind(decrementReferenceCount(s1, s.period - 1), LAMBDA s2 :
        [s |-> IF s2.fault THEN s2
               ELSE [SetValidatorHistoricalRewards(s2, s.period,
                        [ratio |-> CoinsAdd(historical, current), rc |-> 1])
                     EXCEPT !.rewards = ZeroCoins, !.period = s.period + 1],
         period |-> s.period]))

\* ------------------------------------------- 4.2 delegation initialization
\* variant: the current period is stored as the previous period
initializeDelegation_CurrentPeriod(s, d, h) ==
    Bind(incrementReferenceCount(s, s.period - 1), LAMBDA s1 :
        SetDelegatorStartingInfo(s1, d,
            [previousPeriod |-> s.period,
             stake  |-> TokensFromSharesTruncated(s1, s1.shares[d]),
             height |-> h]))

\* variant: the reference to the previous period is not taken
initializeDelegation_NoReference(s, d, h) ==
    LET previousPeriod == s.period - 1
        stake == TokensFromSharesTruncated(s, s.shares[d])
    IN  SetDelegatorStartingInfo(s, d,
            [previousPeriod |-> previousPeriod, stake |-> stake, height |-> h])

\* variant: the stake is rounded instead of truncated
initializeDelegation_RoundedStake(s, d, h) ==
    Bind(incrementReferenceCount(s, s.period - 1), LAMBDA s1 :
        SetDelegatorStartingInfo(s1, d,
            [previousPeriod |-> s.period - 1,
             stake  |-> TokensFromShares(s1, s1.shares[d]),
             height |-> h]))

\* initializeDelegation
initializeDelegation(s, d, h) ==
    LET previousPeriod == s.period - 1
    IN  Bind(incrementReferenceCount(s, previousPeriod), LAMBDA s1 :
        LET stake == TokensFromSharesTruncated(s1, s1.shares[d])
        IN  SetDelegatorStartingInfo(s1, d,
                [previousPeriod |-> previousPeriod, stake |-> stake,
                 height |-> h]))

\* ------------------------------------------------ 4.3 reward of one window
\* variant: the stake is not checked
calculateDelegationRewardsBetween_NoStakeCheck(s, startingPeriod, endingPeriod, stake) ==
    IF startingPeriod > endingPeriod
    THEN [fault |-> TRUE, rewards |-> ZeroCoins]
    ELSE LET starting   == GetValidatorHistoricalRewards(s, startingPeriod)
             ending     == GetValidatorHistoricalRewards(s, endingPeriod)
             difference == CoinsSub(ending.ratio, starting.ratio)
         IN  IF IsAnyNegative(difference)
             THEN [fault |-> TRUE, rewards |-> ZeroCoins]
             ELSE [fault |-> FALSE, rewards |-> MulDecTruncate(difference, stake)]

\* variant: the difference is taken the other way round
calculateDelegationRewardsBetween_DifferenceReversed(s, startingPeriod, endingPeriod, stake) ==
    IF startingPeriod > endingPeriod \/ stake < 0
    THEN [fault |-> TRUE, rewards |-> ZeroCoins]
    ELSE LET starting   == GetValidatorHistoricalRewards(s, startingPeriod)
             ending     == GetValidatorHistoricalRewards(s, endingPeriod)
             difference == CoinsSub(starting.ratio, ending.ratio)
         IN  IF IsAnyNegative(difference)
             THEN [fault |-> TRUE, rewards |-> ZeroCoins]
             ELSE [fault |-> FALSE, rewards |-> MulDecTruncate(difference, stake)]

\* variant: the ratio of the starting period is not subtracted
calculateDelegationRewardsBetween_EndingRatioOnly(s, startingPeriod, endingPeriod, stake) ==
    IF startingPeriod > endingPeriod \/ stake < 0
    THEN [fault |-> TRUE, rewards |-> ZeroCoins]
    ELSE LET ending == GetValidatorHistoricalRewards(s, endingPeriod)
         IN  [fault |-> FALSE, rewards |-> MulDecTruncate(ending.ratio, stake)]

\* calculateDelegationRewardsBetween: the rewards, or a fault
calculateDelegationRewardsBetween(s, startingPeriod, endingPeriod, stake) ==
    IF startingPeriod > endingPeriod
    THEN [fault |-> TRUE, rewards |-> ZeroCoins]
    ELSE IF stake < 0
    THEN [fault |-> TRUE, rewards |-> ZeroCoins]
    ELSE LET starting   == GetValidatorHistoricalRewards(s, startingPeriod)
             ending     == GetValidatorHistoricalRewards(s, endingPeriod)
             difference == CoinsSub(ending.ratio, starting.ratio)
         IN  IF IsAnyNegative(difference)
             THEN [fault |-> TRUE, rewards |-> ZeroCoins]
             ELSE [fault |-> FALSE, rewards |-> MulDecTruncate(difference, stake)]

\* ------------------------------------------------------- slash event log
\* order of the slash event keys: by height, then by period
EventBefore(a, b) ==
    a.height < b.height \/ (a.height = b.height /\ a.period < b.period)

RECURSIVE SortEvents(_)
SortEvents(es) ==
    IF es = {} THEN <<>>
    ELSE LET first == CHOOSE a \in es : \A b \in es \ {a} : EventBefore(a, b)
         IN  <<first>> \o SortEvents(es \ {first})

\* variant: the events recorded at startingHeight are visited as well
IterateValidatorSlashEventsBetween_FromStartingHeight(s, startingHeight, endingHeight) ==
    SortEvents({e \in s.slashes :
                   /\ e.validator = s.validator
                   /\ startingHeight <= e.height /\ e.height <= endingHeight})

\* IterateValidatorSlashEventsBetween: the events of the validator recorded
\* at the heights of (startingHeight, endingHeight], in ascending order
IterateValidatorSlashEventsBetween(s, startingHeight, endingHeight) ==
    SortEvents({e \in s.slashes :
                   /\ e.validator = s.validator
                   /\ startingHeight < e.height /\ e.height <= endingHeight})

\* variant: the stake is multiplied by (fraction - 1)
SlashedStake_Negated(stake, fraction) == MulTruncate(stake, fraction - DecUnit)

\* variant: the slash leaves the stake as it was
SlashedStake_Unreduced(stake, fraction) == stake

\* the stake after a slash by fraction: stake * (1 - fraction), truncated
SlashedStake(stake, fraction) == MulTruncate(stake, DecUnit - fraction)

\* variant: the fraction of an event is applied to the stake whatever the
\* period of the event
RECURSIVE SlashWalk_FractionAlways(_, _, _)
SlashWalk_FractionAlways(s, events, acc) ==
    IF events = <<>> \/ acc.fault THEN acc
    ELSE LET event        == Head(events)
             endingPeriod == event.period
         IN  IF endingPeriod > acc.startingPeriod
             THEN Bind(calculateDelegationRewardsBetween(
                           s, acc.startingPeriod, endingPeriod, acc.stake),
                       LAMBDA r :
                  SlashWalk_FractionAlways(s, Tail(events),
                        [rewards        |-> CoinsAdd(acc.rewards, r.rewards),
                         stake          |-> SlashedStake(acc.stake,
                                                         event.fraction),
                         startingPeriod |-> endingPeriod,
                         fault          |-> r.fault]))
             ELSE SlashWalk_FractionAlways(s, Tail(events),
                        [acc EXCEPT !.stake = SlashedStake(acc.stake,
                                                           event.fraction)])

\* the callback of the slash walk, applied to the events in order; acc is
\* the running [rewards, stake, startingPeriod, fault]
RECURSIVE SlashWalk(_, _, _)
SlashWalk(s, events, acc) ==
    IF events = <<>> \/ acc.fault THEN acc
    ELSE LET event        == Head(events)
             endingPeriod == event.period
         IN  IF endingPeriod > acc.startingPeriod
             THEN Bind(calculateDelegationRewardsBetween(
                           s, acc.startingPeriod, endingPeriod, acc.stake),
                       LAMBDA r :
                  SlashWalk(s, Tail(events),
                        [rewards        |-> CoinsAdd(acc.rewards, r.rewards),
                         stake          |-> SlashedStake(acc.stake,
                                                         event.fraction),
                         startingPeriod |-> endingPeriod,
                         fault          |-> r.fault]))
             ELSE SlashWalk(s, Tail(events), acc)

\* CalculateRewardsForSlashedDelegators
CalculateRewardsForSlashedDelegators(valAddr, delAddr, list) ==
    IF valAddr \in SLASHED_VALIDATORS THEN TRUE
    ELSE IF delAddr \in list THEN TRUE
    ELSE FALSE

\* variant: no margin of error is tolerated
StakeSanityCheck_NoTolerance(s, d, stake) ==
    Bind(TokensFromShares(s, s.shares[d]), LAMBDA currentStake :
    IF stake > currentStake
    THEN [fault |-> TRUE, stake |-> stake]
    ELSE [fault |-> FALSE, stake |-> stake])

\* variant: the v018 patch is applied: for a listed validator or delegator
\* an excess of up to 1.2% is corrected and the calculation continues
StakeSanityCheck_PatchApplied(s, d, stake) ==
    Bind(TokensFromShares(s, s.shares[d]), LAMBDA currentStake :
    IF stake > currentStake
    THEN IF stake <= currentStake + MarginUnits
         THEN [fault |-> FALSE, stake |-> currentStake]
         ELSE IF CalculateRewardsForSlashedDelegators(
                     s.validator, d, SLASHED_DELEGATORS)
                 /\ stake <= currentStake + MulPrec3(currentStake, PatchMarginPrec)
              THEN [fault |-> FALSE, stake |-> currentStake]
              ELSE [fault |-> TRUE, stake |-> stake]
    ELSE [fault |-> FALSE, stake |-> stake])

\* the total stake sanity check of CalculateDelegationRewards: the stake to
\* use for the final window, or a fault
StakeSanityCheck(s, d, stake) ==
    Bind(TokensFromShares(s, s.shares[d]), LAMBDA currentStake :
    IF stake > currentStake
    THEN LET marginOfErr == MarginUnits
         IN  IF stake <= currentStake + marginOfErr
             THEN [fault |-> FALSE, stake |-> currentStake]
             ELSE LET patchMargin == MulPrec3(currentStake, PatchMarginPrec)
                      ok == CalculateRewardsForSlashedDelegators(
                                s.validator, d, SLASHED_DELEGATORS)
                  IN  IF ok /\ stake <= currentStake + patchMargin
                      THEN [fault |-> TRUE, stake |-> currentStake]
                      ELSE [fault |-> TRUE, stake |-> stake]
    ELSE [fault |-> FALSE, stake |-> stake])

\* ------------------------------------- 4.4 full reward with slash correction
\* variant: no early return for a starting info of the current height
CalculateDelegationRewards_NoEarlyReturn(s, d, endingPeriod, h) ==
    LET startingInfo == s.info[d]
        acc0 == [rewards        |-> ZeroCoins,
                 stake          |-> startingInfo.stake,
                 startingPeriod |-> startingInfo.previousPeriod,
                 fault          |-> FALSE]
    IN  Bind(IF h > startingInfo.height
             THEN SlashWalk(s, IterateValidatorSlashEventsBetween(
                                   s, startingInfo.height, h), acc0)
             ELSE acc0, LAMBDA acc :
        Bind(StakeSanityCheck(s, d, acc.stake), LAMBDA chk :
        Bind(calculateDelegationRewardsBetween(
                 s, acc.startingPeriod, endingPeriod, chk.stake),
             LAMBDA last :
        IF acc.fault \/ chk.fault \/ last.fault
        THEN [fault |-> TRUE, rewards |-> ZeroCoins]
        ELSE [fault |-> FALSE,
              rewards |-> CoinsAdd(acc.rewards, last.rewards)])))

\* variant: a starting info of the current height skips the slash walk and
\* the stake check but still gets the rewards of the final window
CalculateDelegationRewards_SameHeightFinalWindow(s, d, endingPeriod, h) ==
    LET startingInfo == s.info[d]
    IN  IF startingInfo.height = h
        THEN Bind(calculateDelegationRewardsBetween(
                      s, startingInfo.previousPeriod, endingPeriod,
                      startingInfo.stake),
                  LAMBDA last :
             IF last.fault THEN [fault |-> TRUE, rewards |-> ZeroCoins]
             ELSE [fault |-> FALSE, rewards |-> last.rewards])
        ELSE CalculateDelegationRewards_NoEarlyReturn(s, d, endingPeriod, h)

\* CalculateDelegationRewards at block height h: the rewards, or a fault
CalculateDelegationRewards(s, d, endingPeriod, h) ==
    LET startingInfo == s.info[d]
    IN  IF startingInfo.height = h
        THEN [fault |-> FALSE, rewards |-> ZeroCoins]
        ELSE
        LET startingHeight == startingInfo.height
            endingHeight   == h
            acc0 == [rewards        |-> ZeroCoins,
                     stake          |-> startingInfo.stake,
                     startingPeriod |-> startingInfo.previousPeriod,
                     fault          |-> FALSE]
        IN  Bind(IF endingHeight > startingHeight
                 THEN SlashWalk(s, IterateValidatorSlashEventsBetween(
                                       s, startingHeight, endingHeight), acc0)
                 ELSE acc0, LAMBDA acc :
            Bind(StakeSanityCheck(s, d, acc.stake), LAMBDA chk :
            Bind(calculateDelegationRewardsBetween(
                     s, acc.startingPeriod, endingPeriod, chk.stake),
                 LAMBDA last :
            IF acc.fault \/ chk.fault \/ last.fault
            THEN [fault |-> TRUE, rewards |-> ZeroCoins]
            ELSE [fault |-> FALSE,
                  rewards |-> CoinsAdd(acc.rewards, last.rewards)])))

\* ------------------------------------------------------ 4.5 withdrawal
\* sdk.GetBaseDenom(): no base denomination is registered
RegisteredBaseDenom == ""

\* sdk.Coins of a vector of whole amounts: the coins of non-zero amount
CoinsOf(a) == {[denom |-> x, amount |-> a[x]] : x \in {y \in Denoms : a[y] # 0}}

NoCoins == {}

\* the zero value of DelegatorStartingInfo
NoInfo == [previousPeriod |-> 0, stake |-> 0, height |-> 0]

\* the result of a withdrawal that did nothing on the store s
NoWithdrawal(s) ==
    [s |-> s, err |-> "-", coins |-> NoCoins,
     requested |-> FALSE, transfer |-> ZeroCoins, sent |-> FALSE,
     event |-> NoCoins, emitted |-> FALSE, info |-> NoInfo, endingPeriod |-> 0,
     outstandingRead |-> ZeroCoins,
     rewardsRaw |-> ZeroCoins, rewards |-> ZeroCoins, remainder |-> ZeroCoins]

\* variant: a pair without starting info gets an empty success
EmptyDelegationDistInfo_Silent(s) == [NoWithdrawal(s) EXCEPT !.err = "nil"]

\* variant: the period is ended before the starting info is looked up
EmptyDelegationDistInfo_PeriodEndedFirst(s) ==
    [NoWithdrawal(IncrementValidatorPeriod(s).s)
        EXCEPT !.err = "ErrEmptyDelegationDistInfo"]

\* the early return for a pair without starting info
EmptyDelegationDistInfo(s) ==
    [NoWithdrawal(s) EXCEPT !.err = "ErrEmptyDelegationDistInfo"]

\* variant: the raw rewards are used as they are
ClampRewards_None(rewardsRaw, outstandingRead) == rewardsRaw

\* rewards := rewardsRaw.Intersect(outstanding)
ClampRewards(rewardsRaw, outstandingRead) == Intersect(rewardsRaw, outstandingRead)

\* variant: the whole coins are rounded up instead of truncated
SplitRewards_RoundedUp(rewards) ==
    [coins  |-> [x \in Denoms |-> (rewards[x] + DecUnit - 1) \div DecUnit],
     change |-> [x \in Denoms |->
                    rewards[x] - ((rewards[x] + DecUnit - 1) \div DecUnit) * DecUnit]]

\* finalRewards, remainder := rewards.TruncateDecimal()
SplitRewards(rewards) == TruncateDecimal(rewards)

\* variant: a failed transfer returns the store as it was before the call
TransferFailed_StoreRestored(s1, w, finalRewards) ==
    [w EXCEPT !.err = "SendCoins", !.requested = TRUE,
              !.transfer = finalRewards]

\* variant: the ledgers are updated before the transfer is attempted
TransferFailed_LedgersUpdated(s1, w, finalRewards) ==
    [w EXCEPT !.s = [s1 EXCEPT
                        !.outstanding = CoinsSub(w.outstandingRead, w.rewards),
                        !.pool = CoinsAdd(s1.pool, w.remainder)],
              !.err = "SendCoins", !.requested = TRUE,
              !.transfer = finalRewards]

\* the return on a failed transfer of finalRewards, from the store s1 that
\* the period ending has left
TransferFailed(s1, w, finalRewards) ==
    [w EXCEPT !.s = s1, !.err = "SendCoins", !.requested = TRUE,
              !.transfer = finalRewards]

\* variant: the remainder is subtracted from the outstanding rewards as well
UpdateLedgers_RemainderTwice(s, outstandingRead, rewards, remainder) ==
    LET s2 == [s EXCEPT !.outstanding =
                   CoinsSub(CoinsSub(outstandingRead, rewards), remainder)]
    IN  [s2 EXCEPT !.pool = CoinsAdd(s2.pool, remainder)]

\* variant: only the whole coins paid are subtracted from the outstanding
\* rewards
UpdateLedgers_FinalRewardsOnly(s, outstandingRead, rewards, remainder) ==
    LET s2 == [s EXCEPT !.outstanding =
                   CoinsSub(outstandingRead, CoinsSub(rewards, remainder))]
    IN  [s2 EXCEPT !.pool = CoinsAdd(s2.pool, remainder)]

\* the outstanding rewards and the community pool are updated
UpdateLedgers(s, outstandingRead, rewards, remainder) ==
    LET s2 == [s EXCEPT !.outstanding = CoinsSub(outstandingRead, rewards)]
    IN  [s2 EXCEPT !.pool = CoinsAdd(s2.pool, remainder)]

\* variant: the starting info is removed without releasing the reference
ReleaseStartingInfo_NoDecrement(s, d) == DeleteDelegatorStartingInfo(s, d)

\* variant: the reference is released but the starting info is kept
ReleaseStartingInfo_InfoKept(s, d) ==
    decrementReferenceCount(s, s.info[d].previousPeriod)

\* the reference to the starting period is released and the starting info
\* of the pair is removed
ReleaseStartingInfo(s, d) ==
    LET startingPeriod == s.info[d].previousPeriod
        s4 == decrementReferenceCount(s, startingPeriod)
    IN  IF s4.fault THEN s4 ELSE DeleteDelegatorStartingInfo(s4, d)

\* variant: no zero coin is substituted for empty final rewards
ResultCoins_Empty(finalRewards) == CoinsOf(finalRewards)

\* the coins returned and reported: never empty
ResultCoins(finalRewards) ==
    LET baseDenom == IF RegisteredBaseDenom = "" THEN DefaultBondDenom
                     ELSE RegisteredBaseDenom
    IN  IF CoinsIsZero(finalRewards)
        THEN {[denom |-> baseDenom, amount |-> 0]}
        ELSE CoinsOf(finalRewards)

\* withdrawDelegationRewards at block height h; sendOk is the outcome of
\* bankKeeper.SendCoinsFromModuleToAccount.  The result holds the store as
\* the call leaves it, the returned coins and error, the requested transfer
\* and the emitted event.
withdrawDelegationRewards(s, d, h, sendOk) ==
    IF ~HasDelegatorStartingInfo(s, d) THEN EmptyDelegationDistInfo(s)
    ELSE
    Bind(IncrementValidatorPeriod(s), LAMBDA inc :
    Bind(CalculateDelegationRewards(inc.s, d, inc.period, h), LAMBDA calc :
    Bind(ClampRewards(calc.rewards, inc.s.outstanding), LAMBDA rewards :
    Bind(SplitRewards(rewards), LAMBDA split :
    LET s1           == inc.s
        endingPeriod == inc.period
        rewardsRaw   == calc.rewards
        outstandingRead == s1.outstanding
        finalRewards == split.coins
        remainder    == split.change
        requested    == ~CoinsIsZero(finalRewards)
        result       == ResultCoins(finalRewards)
        read == [NoWithdrawal(s) EXCEPT !.info = s.info[d],
                     !.endingPeriod = endingPeriod,
                     !.outstandingRead = outstandingRead,
                     !.rewardsRaw = rewardsRaw, !.rewards = rewards,
                     !.remainder = remainder]
    IN  IF s1.fault \/ calc.fault
        THEN [NoWithdrawal(s) EXCEPT !.s = [s1 EXCEPT !.fault = TRUE],
                                     !.err = "panic"]
        ELSE IF requested /\ ~sendOk
        THEN TransferFailed(s1, read, finalRewards)
        ELSE
        Bind(UpdateLedgers(s1, outstandingRead, rewards, remainder), LAMBDA s3 :
        Bind(ReleaseStartingInfo(s3, d), LAMBDA s5 :
        IF s5.fault
        THEN [read EXCEPT !.s = s5, !.err = "panic", !.requested = requested,
                          !.transfer = finalRewards, !.sent = requested]
        ELSE [read EXCEPT !.s = s5, !.err = "nil", !.coins = result,
                          !.requested = requested,
                          !.transfer = finalRewards, !.sent = requested,
                          !.event = result, !.emitted = TRUE]))))))

\* ------------------------------------------------------------- behaviour
\* the part of a withdrawal's result kept in lastCall
NoResult ==
    [err |-> "-", coins |-> NoCoins, requested |-> FALSE, transfer |-> ZeroCoins,
     sent |-> FALSE, event |-> NoCoins, emitted |-> FALSE,
     info |-> NoInfo, endingPeriod |-> 0,
     outstandingRead |-> ZeroCoins, rewardsRaw |-> ZeroCoins,
     rewards |-> ZeroCoins, remainder |-> ZeroCoins]

ResultOf(w) ==
    [err |-> w.err, coins |-> w.coins, requested |-> w.requested,
     transfer |-> w.transfer, sent |-> w.sent, event |-> w.event,
     emitted |-> w.emitted, info |-> w.info, endingPeriod |-> w.endingPeriod,
     outstandingRead |-> w.outstandingRead,
     rewardsRaw |-> w.rewardsRaw, rewards |-> w.rewards,
     remainder |-> w.remainder]

Call(op, d, r) == [op |-> op, del |-> d, r |-> r]

\* lastCall after a step that is no withdrawal
NoCall == Call("-", "-", NoResult)

\* a fatal fault halts the processing of the block
Halted == lastCall.r.err = "panic"

\* writes the store value s back to the variables
Commit(s) ==
    /\ curPeriod' = s.period
    /\ curRewards' = s.rewards
    /\ hist' = s.hist
    /\ startInfo' = s.info
    /\ slashEvents' = s.slashes
    /\ outstanding' = s.outstanding
    /\ communityPool' = s.pool
    /\ valTokens' = s.tokens
    /\ valShares' = s.valShares
    /\ delShares' = s.shares

\* validator creation: period 0 is closed with a zero ratio, period 1 is open
Init ==
    /\ height = 1
    /\ curPeriod = 1
    /\ curRewards = ZeroCoins
    /\ hist = [p \in {0} |-> [ratio |-> ZeroCoins, rc |-> 1]]
    /\ startInfo = [d \in {} |-> 0]
    /\ slashEvents = {}
    /\ outstanding = ZeroCoins
    /\ communityPool = ZeroCoins
    /\ valTokens = 0
    /\ valShares = 0
    /\ delShares = [d \in Delegators |-> 0]
    /\ periodEnded = FALSE
    /\ lastCall = NoCall
    /\ phase = "alloc"
    /\ allocated = ZeroCoins
    /\ paid = ZeroCoins
    /\ NoSims

\* A block first allocates rewards, then applies the slashes of its
\* BeginBlock, then runs its transactions (period endings, delegations,
\* withdrawals).

\* the next block begins
NextBlock ==
    /\ ~Halted
    /\ height < MaxHeight
    /\ height' = height + 1
    /\ phase' = "alloc"
    /\ lastCall' = NoCall
    /\ UNCHANGED <<storeVars, stakingVars, periodEnded, allocated, paid>>
    /\ UNCHANGED simVars

\* rewards are allocated to the validator: they accrue to the current
\* period and to the outstanding rewards
AllocateRewards(x, amt) ==
    /\ ~Halted
    /\ phase = "alloc"
    /\ valTokens > 0
    /\ curRewards' = [curRewards EXCEPT ![x] = @ + amt]
    /\ outstanding' = [outstanding EXCEPT ![x] = @ + amt]
    /\ allocated' = [allocated EXCEPT ![x] = @ + amt]
    /\ phase' = "slash"
    /\ periodEnded' = FALSE
    /\ lastCall' = NoCall
    /\ UNCHANGED <<height, curPeriod, hist, startInfo, slashEvents,
                   communityPool, stakingVars, paid>>
    /\ UNCHANGED simVars

\* the current period of the validator is ended
EndPeriod ==
    /\ ~Halted
    /\ curPeriod < MaxPeriod
    /\ Commit(IncrementValidatorPeriod(Store).s)
    /\ periodEnded' = TRUE
    /\ phase' = "txs"
    /\ lastCall' = NoCall
    /\ UNCHANGED <<height, allocated, paid>>
    /\ UNCHANGED simVars

\* validator.AddTokensFromDel: the shares issued for amt tokens
SharesFromTokens(s, amt) ==
    IF s.valShares = 0 THEN amt * DecUnit
    ELSE (s.valShares * amt) \div s.tokens

\* the staking state after d has bonded amt more tokens
Bond(s, d, amt) ==
    LET issued == SharesFromTokens(s, amt)
    IN  [s EXCEPT !.tokens = s.tokens + amt,
                  !.valShares = s.valShares + issued,
                  !.shares = [s.shares EXCEPT ![d] = @ + issued]]

\* a delegation is created (its tokens are bonded) or, after a withdrawal,
\* started again (nothing more is bonded): its starting info is initialized
\* right after a period ending
Delegate(d) ==
    /\ ~Halted
    /\ periodEnded
    /\ ~HasDelegatorStartingInfo(Store, d)
    /\ valShares = 0 \/ valTokens > 0
    /\ LET amt == IF delShares[d] = 0 THEN BondAmount[d] ELSE 0
       IN  Commit(initializeDelegation(Bond(Store, d, amt), d, height))
    /\ phase' = "txs"
    /\ lastCall' = NoCall
    /\ UNCHANGED <<height, periodEnded, allocated, paid>>
    /\ UNCHANGED simVars

\* the validator is slashed by fraction f: its period is ended, the slash
\* event is recorded with a reference to the closed period, and the
\* fraction of its tokens is burned
Slash(f) ==
    /\ ~Halted
    /\ phase \in {"alloc", "slash"}
    /\ curPeriod < MaxPeriod
    /\ Cardinality(slashEvents) < MaxSlashes
    /\ valTokens > 0
    /\ \E inc \in {IncrementValidatorPeriod(Store)} :
         LET s1  == incrementReferenceCount(inc.s, inc.period)
             s2  == [s1 EXCEPT !.slashes = @ \cup
                        {[validator |-> ValidatorAddr, height |-> height,
                          period |-> inc.period, fraction |-> f]}]
             s3  == [s2 EXCEPT !.tokens = @ - ((@ * f) \div DecUnit)]
         IN  Commit(s3)
    /\ periodEnded' = TRUE
    /\ phase' = "slash"
    /\ lastCall' = NoCall
    /\ UNCHANGED <<height, allocated, paid>>
    /\ UNCHANGED simVars

\* the rewards of delegator d are withdrawn; sendOk is the outcome of the
\* balance transfer
Withdraw(d, sendOk) ==
    /\ ~Halted
    /\ HasDelegatorStartingInfo(Store, d) => curPeriod < MaxPeriod
    /\ \E w \in {withdrawDelegationRewards(Store, d, height, sendOk)} :
           /\ Commit(w.s)
           /\ lastCall' = Call("withdraw", d, ResultOf(w))
           /\ paid' = IF w.sent THEN CoinsAdd(paid, w.transfer) ELSE paid
           /\ periodEnded' = IF w.err = "ErrEmptyDelegationDistInfo"
                             THEN periodEnded ELSE TRUE
    /\ phase' = "txs"
    /\ UNCHANGED <<height, allocated>>
    /\ UNCHANGED simVars

Next ==
    \/ NextBlock
    \/ \E x \in Denoms, amt \in AllocAmounts : AllocateRewards(x, amt)
    \/ EndPeriod
    \/ \E d \in Delegators : Delegate(d)
    \/ \E f \in SlashFractions : Slash(f)
    \/ \E d \in Delegators, sendOk \in BOOLEAN : Withdraw(d, sendOk)

Spec == Init /\ [][Next]_vars

\* --------------------------------------------- calls on any store content
\* The reward calculation and the withdrawal are also applied to store
\* contents that are given rather than built up block by block: any ratios,
\* outstanding rewards, slash log and starting info of the sets below.
AnyPeriod == 3                       \* the current period of a given store
AnyHeight == 2                       \* the block height of the calls
AnyRatios == {0, 10, 30}             \* cumulative reward ratios 0, 0.1, 0.3
AnyOutstanding == {0, 550, 100 * DecUnit}  \* outstanding 0, 5.5 and 100
\* stake of the starting info: 0, 100, 100.03 and 100.04
AnyStakes == {0, 100 * DecUnit, 100 * DecUnit + 3, 100 * DecUnit + 4}
AnyTokens == {50, 100}               \* tokens of the validator
AnySlashLogs ==
    {{},
     {[validator |-> ValidatorAddr, height |-> 2, period |-> 2, fraction |-> 50]},
     {[validator |-> ValidatorAddr, height |-> 1, period |-> 1, fraction |-> 100],
      [validator |-> ValidatorAddr, height |-> 2, period |-> 2, fraction |-> 0]}}
BetweenStakes == {-1, 0, 100 * DecUnit}  \* stake arguments: -0.01, 0, 100

InitAnyStore ==
    /\ height = AnyHeight
    /\ curPeriod = AnyPeriod
    /\ curRewards = [x \in Denoms |-> 10 * DecUnit]
    /\ \E r1, r2 \in AnyRatios :
          hist = [p \in 0 .. AnyPeriod - 1 |->
                    [ratio |-> [x \in Denoms |->
                                   IF p = 0 THEN 0 ELSE IF p = 1 THEN r1 ELSE r2],
                     rc |-> 2]]
    /\ \E p \in 0 .. 1, st \in AnyStakes, h \in 1 .. AnyHeight :
          startInfo = [d \in {"d1"} |->
                         [previousPeriod |-> p, stake |-> st, height |-> h]]
    /\ slashEvents \in AnySlashLogs
    /\ \E o \in AnyOutstanding : outstanding = [x \in Denoms |-> o]
    /\ communityPool = ZeroCoins
    /\ valTokens \in AnyTokens
    /\ valShares = 100 * DecUnit
    /\ delShares = [d \in Delegators |-> IF d = "d1" THEN 100 * DecUnit ELSE 0]
    /\ periodEnded = TRUE
    /\ lastCall = NoCall
    /\ phase = "txs"
    /\ allocated = ZeroCoins
    /\ paid = ZeroCoins
    /\ NoSims

\* the outcome of a call that returns rewards or panics
CalcResult(c) == [err |-> IF c.fault THEN "panic" ELSE "nil", rewards |-> c.rewards]

\* calculateDelegationRewardsBetween is called on the store
CallBetween(startingPeriod, endingPeriod, stake) ==
    /\ ~Halted
    /\ \E c \in {calculateDelegationRewardsBetween(
                     Store, startingPeriod, endingPeriod, stake)} :
          lastCall' = Call("between",
                           <<startingPeriod, endingPeriod, stake>>, CalcResult(c))
    /\ UNCHANGED <<height, storeVars, stakingVars, periodEnded, phase,
                   allocated, paid>>
    /\ UNCHANGED simVars

\* CalculateDelegationRewards is called on the store for delegator d
CallCalculate(d, endingPeriod) ==
    /\ ~Halted
    /\ HasDelegatorStartingInfo(Store, d)
    /\ \E c \in {CalculateDelegationRewards(Store, d, endingPeriod, height)} :
          lastCall' = Call("calculate", <<d, endingPeriod>>, CalcResult(c))
    /\ UNCHANGED <<height, storeVars, stakingVars, periodEnded, phase,
                   allocated, paid>>
    /\ UNCHANGED simVars

NextAnyStore ==
    \/ \E sp, ep \in 1 .. AnyPeriod - 1, st \in BetweenStakes :
          CallBetween(sp, ep, st)
    \/ \E d \in Delegators, ep \in 1 .. AnyPeriod : CallCalculate(d, ep)
    \/ \E d \in Delegators, sendOk \in BOOLEAN : Withdraw(d, sendOk)

SpecAnyStore == InitAnyStore /\ [][NextAnyStore]_vars

\* ------------------------------------- the withdrawal, statement by statement
\* withdrawDelegationRewards is also run one statement at a time on a given
\* store, so that the order of its writes is visible.  phase is the position
\* in the function ("txs" when no call is running) and lastCall.r holds its
\* local variables, the transfers requested from the bank keeper and the
\* events emitted, in the order of their occurrence.
StepRatios == {10, 30}               \* ratio of the last closed period
StepOutstanding == {0, 50, 550, 100 * DecUnit}  \* outstanding 0, 0.5, 5.5, 100
StepSlashLogs ==
    {{},
     {[validator |-> ValidatorAddr, height |-> 2, period |-> 2, fraction |-> 50]}}

\* the withdraw address configured for a delegator
WithdrawAddr == [d1 |-> "w1", d2 |-> "d2"]

\* GetDelegatorWithdrawAddr
GetDelegatorWithdrawAddr(d) == WithdrawAddr[d]

\* types.EventTypeWithdrawRewards
EventTypeWithdrawRewards == "withdraw_rewards"

\* the local variables before the first statement
NoLocals ==
    [err |-> "-", coins |-> NoCoins, endingPeriod |-> 0,
     rewardsRaw |-> ZeroCoins, outstanding |-> ZeroCoins,
     rewards |-> ZeroCoins, finalRewards |-> ZeroCoins,
     remainder |-> ZeroCoins, transfers |-> <<>>, events |-> <<>>]

\* lastCall before the first call
NoStepCall == Call("-", "-", NoLocals)

InitWithdrawSteps ==
    /\ height = AnyHeight
    /\ curPeriod = AnyPeriod
    /\ curRewards = [x \in Denoms |-> 10 * DecUnit]
    /\ \E r2 \in StepRatios :
          hist = [p \in 0 .. AnyPeriod - 1 |->
                    [ratio |-> [x \in Denoms |-> IF p < AnyPeriod - 1 THEN 0 ELSE r2],
                     rc |-> IF p = AnyPeriod - 1 THEN 2 ELSE 1]]
    /\ \E p \in 0 .. 1, h \in 1 .. AnyHeight :
          startInfo = [d \in {"d1"} |->
                         [previousPeriod |-> p, stake |-> 100 * DecUnit,
                          height |-> h]]
    /\ slashEvents \in StepSlashLogs
    /\ \E o \in StepOutstanding : outstanding = [x \in Denoms |-> o]
    /\ communityPool = ZeroCoins
    /\ valTokens \in AnyTokens
    /\ valShares = 100 * DecUnit
    /\ delShares = [d \in Delegators |-> IF d = "d1" THEN 100 * DecUnit ELSE 0]
    /\ periodEnded = TRUE
    /\ lastCall = NoStepCall
    /\ phase = "txs"
    /\ allocated = ZeroCoins
    /\ paid = ZeroCoins
    /\ NoSims

\* lines 666-669: the starting info of the pair is looked up
WithdrawBegin(d) ==
    /\ ~Halted
    /\ phase = "txs"
    /\ HasDelegatorStartingInfo(Store, d) => curPeriod < MaxPeriod
    /\ IF ~HasDelegatorStartingInfo(Store, d)
       THEN /\ lastCall' = Call("withdraw", d,
                    [NoLocals EXCEPT !.err = "ErrEmptyDelegationDistInfo"])
            /\ phase' = "txs"
       ELSE /\ lastCall' = Call("withdraw", d, NoLocals)
            /\ phase' = "endPeriod"
    /\ UNCHANGED <<height, storeVars, stakingVars, periodEnded, allocated, paid>>
    /\ UNCHANGED simVars

\* line 672: endingPeriod := k.IncrementValidatorPeriod(ctx, val)
StepEndPeriod ==
    /\ ~Halted
    /\ phase = "endPeriod"
    /\ \E inc \in {IncrementValidatorPeriod(Store)} :
          /\ Commit(inc.s)
          /\ lastCall' = [lastCall EXCEPT
                             !.r.endingPeriod = inc.period,
                             !.r.err = IF inc.s.fault THEN "panic" ELSE @]
    /\ phase' = "calculate"
    /\ periodEnded' = TRUE
    /\ UNCHANGED <<height, allocated, paid>>
    /\ UNCHANGED simVars

\* lines 673-691: rewardsRaw, outstanding, rewards, finalRewards, remainder
StepCalculate ==
    /\ ~Halted
    /\ phase = "calculate"
    /\ \E calc \in {CalculateDelegationRewards(
                        Store, lastCall.del, lastCall.r.endingPeriod, height)} :
          IF calc.fault
          THEN /\ lastCall' = [lastCall EXCEPT !.r.err = "panic"]
               /\ phase' = phase
          ELSE \E rewards \in {ClampRewards(calc.rewards, outstanding)} :
               \E split \in {SplitRewards(rewards)} :
                  /\ lastCall' = [lastCall EXCEPT
                                     !.r.rewardsRaw = calc.rewards,
                                     !.r.outstanding = outstanding,
                                     !.r.rewards = rewards,
                                     !.r.finalRewards = split.coins,
                                     !.r.remainder = split.change]
                  /\ phase' = "transfer"
    /\ UNCHANGED <<height, storeVars, stakingVars, periodEnded, allocated, paid>>
    /\ UNCHANGED simVars

\* variant: the function goes on after a failed transfer
StepTransfer_ContinuesOnFailure(sendOk) ==
    /\ ~Halted
    /\ phase = "transfer"
    /\ IF CoinsIsZero(lastCall.r.finalRewards)
       THEN /\ phase' = "setOutstanding"
            /\ UNCHANGED <<lastCall, paid>>
       ELSE /\ lastCall' = [lastCall EXCEPT
                    !.r.transfers = Append(@,
                        [to |-> GetDelegatorWithdrawAddr(lastCall.del),
                         amount |-> lastCall.r.finalRewards, ok |-> sendOk]),
                    !.r.err = IF sendOk THEN @ ELSE "SendCoins"]
            /\ paid' = IF sendOk THEN CoinsAdd(paid, lastCall.r.finalRewards)
                       ELSE paid
            /\ phase' = "setOutstanding"
    /\ UNCHANGED <<height, storeVars, stakingVars, periodEnded, allocated>>
    /\ UNCHANGED simVars

\* variant: the transfer is requested whatever the amount
StepTransfer_AlsoZero(sendOk) ==
    /\ ~Halted
    /\ phase = "transfer"
    /\ lastCall' = [lastCall EXCEPT
             !.r.transfers = Append(@,
                 [to |-> GetDelegatorWithdrawAddr(lastCall.del),
                  amount |-> lastCall.r.finalRewards, ok |-> sendOk]),
             !.r.err = IF sendOk THEN @ ELSE "SendCoins"]
    /\ paid' = IF sendOk THEN CoinsAdd(paid, lastCall.r.finalRewards) ELSE paid
    /\ phase' = IF sendOk THEN "setOutstanding" ELSE "txs"
    /\ UNCHANGED <<height, storeVars, stakingVars, periodEnded, allocated>>
    /\ UNCHANGED simVars

\* lines 693-700: finalRewards, when not zero, are sent to the withdraw
\* address of the delegator; sendOk is the outcome of
\* bankKeeper.SendCoinsFromModuleToAccount, whose error is returned
StepTransfer(sendOk) ==
    /\ ~Halted
    /\ phase = "transfer"
    /\ IF CoinsIsZero(lastCall.r.finalRewards)
       THEN /\ phase' = "setOutstanding"
            /\ UNCHANGED <<lastCall, paid>>
       ELSE /\ lastCall' = [lastCall EXCEPT
                    !.r.transfers = Append(@,
                        [to |-> GetDelegatorWithdrawAddr(lastCall.del),
                         amount |-> lastCall.r.finalRewards, ok |-> sendOk]),
                    !.r.err = IF sendOk THEN @ ELSE "SendCoins"]
            /\ paid' = IF sendOk THEN CoinsAdd(paid, lastCall.r.finalRewards)
                       ELSE paid
            /\ phase' = IF sendOk THEN "setOutstanding" ELSE "txs"
    /\ UNCHANGED <<height, storeVars, stakingVars, periodEnded, allocated>>
    /\ UNCHANGED simVars

\* line 704: SetValidatorOutstandingRewards(outstanding.Sub(rewards))
StepSetOutstanding ==
    /\ ~Halted
    /\ phase = "setOutstanding"
    /\ outstanding' = CoinsSub(lastCall.r.outstanding, lastCall.r.rewards)
    /\ phase' = "setFeePool"
    /\ UNCHANGED <<height, curPeriod, curRewards, hist, startInfo, slashEvents,
                   communityPool, stakingVars, periodEnded, lastCall,
                   allocated, paid>>
    /\ UNCHANGED simVars

\* lines 705-707: the remainder is added to the community pool
StepSetFeePool ==
    /\ ~Halted
    /\ phase = "setFeePool"
    /\ communityPool' = CoinsAdd(communityPool, lastCall.r.remainder)
    /\ phase' = "decrement"
    /\ UNCHANGED <<height, curPeriod, curRewards, hist, startInfo, slashEvents,
                   outstanding, stakingVars, periodEnded, lastCall,
                   allocated, paid>>
    /\ UNCHANGED simVars

\* lines 710-712: the reference to the starting period is released
StepDecrement ==
    /\ ~Halted
    /\ phase = "decrement"
    /\ \E s \in {decrementReferenceCount(
                     Store, startInfo[lastCall.del].previousPeriod)} :
          /\ hist' = s.hist
          /\ lastCall' = [lastCall EXCEPT
                             !.r.err = IF s.fault THEN "panic" ELSE @]
    /\ phase' = "delete"
    /\ UNCHANGED <<height, curPeriod, curRewards, startInfo, slashEvents,
                   outstanding, communityPool, stakingVars, periodEnded,
                   allocated, paid>>
    /\ UNCHANGED simVars

\* line 715: DeleteDelegatorStartingInfo
StepDelete ==
    /\ ~Halted
    /\ phase = "delete"
    /\ startInfo' = DeleteDelegatorStartingInfo(Store, lastCall.del).info
    /\ phase' = "emit"
    /\ UNCHANGED <<height, curPeriod, curRewards, hist, slashEvents,
                   outstanding, communityPool, stakingVars, periodEnded,
                   lastCall, allocated, paid>>
    /\ UNCHANGED simVars

\* the event of a withdrawal of amount for delegator d
WithdrawRewardsEvent(amount, d) ==
    [type |-> EventTypeWithdrawRewards, amount |-> amount,
     validator |-> ValidatorAddr, delegator |-> d]

\* variant: the event is emitted twice
StepEmit_Twice ==
    /\ ~Halted
    /\ phase = "emit"
    /\ \E result \in {ResultCoins(lastCall.r.finalRewards)} :
          lastCall' = [lastCall EXCEPT
              !.r.events = @ \o <<WithdrawRewardsEvent(result, lastCall.del),
                                  WithdrawRewardsEvent(result, lastCall.del)>>,
              !.r.coins = result,
              !.r.err = "nil"]
    /\ phase' = "txs"
    /\ UNCHANGED <<height, storeVars, stakingVars, periodEnded, allocated, paid>>
    /\ UNCHANGED simVars

\* lines 717-737: empty final rewards become one zero coin, the event is
\* emitted and the coins are returned
StepEmit ==
    /\ ~Halted
    /\ phase = "emit"
    /\ \E result \in {ResultCoins(lastCall.r.finalRewards)} :
          lastCall' = [lastCall EXCEPT
              !.r.events = Append(@, WithdrawRewardsEvent(result, lastCall.del)),
              !.r.coins = result,
              !.r.err = "nil"]
    /\ phase' = "txs"
    /\ UNCHANGED <<height, storeVars, stakingVars, periodEnded, allocated, paid>>
    /\ UNCHANGED simVars

NextWithdrawSteps ==
    \/ \E d \in Delegators : WithdrawBegin(d)
    \/ StepEndPeriod
    \/ StepCalculate
    \/ \E sendOk \in BOOLEAN : StepTransfer(sendOk)
    \/ StepSetOutstanding
    \/ StepSetFeePool
    \/ StepDecrement
    \/ StepDelete
    \/ StepEmit

SpecWithdrawSteps == InitWithdrawSteps /\ [][NextWithdrawSteps]_vars

\* ------------------------------------------------ the slash walk on any log
\* CalculateDelegationRewards is called on slash logs that hold events at
\* the height of the starting info, events of another validator, events at
\* several heights of the walked range and events whose period is not above
\* the period the walk has reached.
WalkHeight == AnyHeight + 1          \* the block height of the calls
WalkPeriod == AnyPeriod + 1          \* the current period of the validator
WalkRatioScales == {1, 2}

\* the cumulative reward ratio of period p: 0, 0.1, 0.4, 0.9, ... times k
WalkRatio(p, k) == 10 * k * p * p

WalkSlashLogs ==
    {{},
     {[validator |-> ValidatorAddr, height |-> 2, period |-> 1, fraction |-> 50],
      [validator |-> ValidatorAddr, height |-> 3, period |-> 2, fraction |-> 50]},
     {[validator |-> ValidatorAddr, height |-> 1, period |-> 1, fraction |-> 100],
      [validator |-> ValidatorAddr, height |-> 2, period |-> 2, fraction |-> 50]},
     {[validator |-> ValidatorAddr, height |-> 2, period |-> 2, fraction |-> 50],
      [validator |-> OtherValidatorAddr, height |-> 2, period |-> 1, fraction |-> 100]},
     {[validator |-> ValidatorAddr, height |-> 2, period |-> 2, fraction |-> 50],
      [validator |-> ValidatorAddr, height |-> 3, period |-> 1, fraction |-> 100]}}

InitSlashWalk ==
    /\ height = WalkHeight
    /\ curPeriod = WalkPeriod
    /\ curRewards = ZeroCoins
    /\ \E k \in WalkRatioScales :
          hist = [p \in 0 .. WalkPeriod - 1 |->
                    [ratio |-> [x \in Denoms |-> WalkRatio(p, k)], rc |-> 2]]
    /\ \E p \in 0 .. 1, h \in 1 .. AnyHeight :
          startInfo = [d \in {"d1"} |->
                         [previousPeriod |-> p, stake |-> 100 * DecUnit,
                          height |-> h]]
    /\ slashEvents \in WalkSlashLogs
    /\ outstanding = [x \in Denoms |-> 100 * DecUnit]
    /\ communityPool = ZeroCoins
    /\ valTokens \in AnyTokens
    /\ valShares = 100 * DecUnit
    /\ delShares = [d \in Delegators |-> IF d = "d1" THEN 100 * DecUnit ELSE 0]
    /\ periodEnded = TRUE
    /\ lastCall = NoCall
    /\ phase = "txs"
    /\ allocated = ZeroCoins
    /\ paid = ZeroCoins
    /\ NoSims

NextSlashWalk ==
    \E d \in Delegators, ep \in 1 .. AnyPeriod : CallCalculate(d, ep)

SpecSlashWalk == InitSlashWalk /\ [][NextSlashWalk]_vars

\* -------------------------------------- delegation initialization on a store
\* initializeDelegation is called on a given store, for a pair that has a
\* starting info as well as for one that has none.
MaxRefs == 4                         \* calls stop at this reference count
InitializeTokens == {33, 65, 130}    \* tokens of the validator

InitInitialize ==
    /\ height \in 1 .. AnyHeight
    /\ curPeriod = AnyPeriod
    /\ curRewards = [x \in Denoms |-> 10 * DecUnit]
    /\ \E k \in WalkRatioScales :
          hist = [p \in 0 .. AnyPeriod - 1 |->
                    [ratio |-> [x \in Denoms |-> WalkRatio(p, k)], rc |-> 2]]
    /\ \/ startInfo = [d \in {} |-> 0]
       \/ \E p \in 0 .. 1 :
             startInfo = [d \in {"d1"} |->
                            [previousPeriod |-> p, stake |-> 100 * DecUnit,
                             height |-> 1]]
    /\ slashEvents = {}
    /\ outstanding = [x \in Denoms |-> 100 * DecUnit]
    /\ communityPool = ZeroCoins
    /\ valTokens \in InitializeTokens
    /\ valShares = 130 * DecUnit
    /\ delShares = [d \in Delegators |->
                       IF d = "d1" THEN 100 * DecUnit ELSE 30 * DecUnit]
    /\ periodEnded = TRUE
    /\ lastCall = NoCall
    /\ phase = "txs"
    /\ allocated = ZeroCoins
    /\ paid = ZeroCoins
    /\ NoSims

\* initializeDelegation is called on the store for delegator d
CallInitialize(d) ==
    /\ ~Halted
    /\ GetValidatorHistoricalRewards(Store, curPeriod - 1).rc < MaxRefs
    /\ Commit(initializeDelegation(Store, d, height))
    /\ lastCall' = Call("initialize", d, NoResult)
    /\ UNCHANGED <<height, periodEnded, phase, allocated, paid>>
    /\ UNCHANGED simVars

NextInitialize == \E d \in Delegators : CallInitialize(d)

SpecInitialize == InitInitialize /\ [][NextInitialize]_vars

\* ------------------------------- the stake check for listed addresses
\* CalculateDelegationRewards is also called for a validator and a delegator
\* of the lists SLASHED_VALIDATORS and SLASHED_DELEGATORS.  Both delegators
\* hold the same shares and the same starting info, and both validators
\* have the same slash events, so that the calls differ by the addresses
\* only.
Validators == {ValidatorAddr, OtherValidatorAddr}
\* stakes 100, 100.03, 100.04, 101.20, 101.21 and 200.08
CheckStakes == {100 * DecUnit, 100 * DecUnit + 3, 100 * DecUnit + 4,
                100 * DecUnit + 120, 100 * DecUnit + 121, 200 * DecUnit + 8}
CheckTokens == {100, 200}            \* tokens of the validator
CheckSlashLogs ==
    {{},
     {[validator |-> v, height |-> 2, period |-> 2, fraction |-> 50] :
         v \in Validators}}

InitStakeCheck ==
    /\ height = AnyHeight
    /\ curPeriod = AnyPeriod
    /\ curRewards = [x \in Denoms |-> 10 * DecUnit]
    /\ \E r1, r2 \in AnyRatios :
          hist = [p \in 0 .. AnyPeriod - 1 |->
                    [ratio |-> [x \in Denoms |->
                                   IF p = 0 THEN 0 ELSE IF p = 1 THEN r1 ELSE r2],
                     rc |-> 2]]
    /\ \E p \in 0 .. 1, st \in CheckStakes, h \in 1 .. AnyHeight :
          startInfo = [d \in Delegators |->
                         [previousPeriod |-> p, stake |-> st, height |-> h]]
    /\ slashEvents \in CheckSlashLogs
    /\ outstanding = [x \in Denoms |-> 100 * DecUnit]
    /\ communityPool = ZeroCoins
    /\ valTokens \in CheckTokens
    /\ valShares = 200 * DecUnit
    /\ delShares = [d \in Delegators |-> 100 * DecUnit]
    /\ periodEnded = TRUE
    /\ lastCall = NoCall
    /\ phase = "txs"
    /\ allocated = ZeroCoins
    /\ paid = ZeroCoins
    /\ NoSims

\* the store as read for the validator val
StoreOf(val) == [Store EXCEPT !.validator = val]

\* CalculateDelegationRewards is called for validator val and delegator d
CallCalculateFor(val, d, endingPeriod) ==
    /\ ~Halted
    /\ HasDelegatorStartingInfo(Store, d)
    /\ \E c \in {CalculateDelegationRewards(StoreOf(val), d, endingPeriod, height)} :
          lastCall' = Call("calculateFor", <<val, d, endingPeriod>>, CalcResult(c))
    /\ UNCHANGED <<height, storeVars, stakingVars, periodEnded, phase,
                   allocated, paid>>
    /\ UNCHANGED simVars

NextStakeCheck ==
    \E val \in Validators, d \in Delegators, ep \in 1 .. AnyPeriod :
        CallCalculateFor(val, d, ep)

SpecStakeCheck == InitStakeCheck /\ [][NextStakeCheck]_vars

\* ------------------------------------------- simulation runner: validator set
\* The simulation runner (doMainLoop) keeps the active validator set, a
\* history of validator sets and a registry of operations scheduled for a
\* later block time.  Each of the three is run on its own, the distribution
\* state idle.
distVars == <<height, storeVars, stakingVars, periodEnded, phase,
              allocated, paid>>

\* the distribution module is idle
NoDistribution ==
    /\ height = 1
    /\ curPeriod = 1
    /\ curRewards = ZeroCoins
    /\ hist = [p \in {0} |-> [ratio |-> ZeroCoins, rc |-> 1]]
    /\ startInfo = [d \in {} |-> 0]
    /\ slashEvents = {}
    /\ outstanding = ZeroCoins
    /\ communityPool = ZeroCoins
    /\ valTokens = 0
    /\ valShares = 0
    /\ delShares = [d \in Delegators |-> 0]
    /\ periodEnded = FALSE
    /\ phase = "txs"
    /\ allocated = ZeroCoins
    /\ paid = ZeroCoins

MaxUpdates == 2                      \* length of an update list
PubKeys == {"pk1", "pk2", "pk3"}     \* public keys of the validators
Powers == {0, 1, 2, 3}               \* powers of the updates

\* sha256.Sum256(u.PubKey)[:truncatedSize]: the address of a public key, as
\* its rank in the byte order of the addresses; the order of the hashes is
\* unrelated to the order of the keys
Sum256Truncated(pubKey) ==
    CASE pubKey = "pk1" -> 2
      [] pubKey = "pk2" -> 3
      [] pubKey = "pk3" -> 1

\* bytes.Compare
BytesCompare(a, b) == IF a < b THEN -1 ELSE IF a > b THEN 1 ELSE 0

\* NewValSet
NewValSet == <<>>

\* simsx.Collect(updates, ...): the updates as weighted validators
CollectUpdates(updates) ==
    [i \in 1 .. Len(updates) |->
        [Power |-> updates[i].Power,
         Address |-> Sum256Truncated(updates[i].PubKey)]]

\* slices.IndexFunc by address: the first position of the address, 0 when
\* it is absent (positions count from 1)
IndexOfAddress(valset, address) ==
    IF \E i \in 1 .. Len(valset) : valset[i].Address = address
    THEN CHOOSE i \in 1 .. Len(valset) :
            /\ valset[i].Address = address
            /\ \A j \in 1 .. i - 1 : valset[j].Address # address
    ELSE 0

\* the loop over the updates: append, remove or overwrite the power
RECURSIVE ApplyUpdates(_, _)
ApplyUpdates(newValset, valUpdates) ==
    IF valUpdates = <<>> THEN newValset
    ELSE LET u   == Head(valUpdates)
             pos == IndexOfAddress(newValset, u.Address)
         IN  IF pos = 0
             THEN ApplyUpdates(IF u.Power > 0 THEN Append(newValset, u)
                               ELSE newValset, Tail(valUpdates))
             ELSE IF u.Power = 0
             THEN ApplyUpdates(SubSeq(newValset, 1, pos - 1)
                                  \o SubSeq(newValset, pos + 1, Len(newValset)),
                               Tail(valUpdates))
             ELSE ApplyUpdates([newValset EXCEPT ![pos].Power = u.Power],
                               Tail(valUpdates))

\* the comparison function given to slices.SortFunc; its second case
\* compares a.Power with itself
ComparePower(a, b) ==
    IF a.Power < b.Power THEN 1
    ELSE IF a.Power > a.Power THEN -1
    ELSE BytesCompare(a.Address, b.Address)

\* slices.SortFunc on fewer than 13 elements is an insertion sort: element j
\* moves towards the front while it compares below its predecessor
RECURSIVE MoveToFront(_, _)
MoveToFront(data, j) ==
    IF j > 1 /\ ComparePower(data[j], data[j - 1]) < 0
    THEN MoveToFront([data EXCEPT ![j] = data[j - 1], ![j - 1] = data[j]], j - 1)
    ELSE data

RECURSIVE InsertionSortFrom(_, _)
InsertionSortFrom(data, i) ==
    IF i > Len(data) THEN data
    ELSE InsertionSortFrom(MoveToFront(data, i), i + 1)

SortFunc(data) == InsertionSortFrom(data, 2)

\* WeightedValidators.Update
Update(v, updates) ==
    IF Len(updates) = 0 THEN v
    ELSE SortFunc(ApplyUpdates(v, CollectUpdates(updates)))

\* the update lists of a block
ValidatorUpdates == [PubKey : PubKeys, Power : Powers]
UpdateLists == UNION {[1 .. n -> ValidatorUpdates] : n \in 0 .. MaxUpdates}

InitValSet ==
    /\ NoDistribution
    /\ lastCall = NoCall
    /\ activeValidatorSet = NewValSet
    /\ valsetHistory = NewValSetHistory(1)
    /\ futureOpsReg = NewFutureOpsRegistry("equal")

\* activeValidatorSet = activeValidatorSet.Update(updates)
UpdateValSet(updates) ==
    /\ activeValidatorSet' = Update(activeValidatorSet, updates)
    /\ lastCall' = Call("Update", updates, NoResult)
    /\ UNCHANGED <<distVars, valsetHistory, futureOpsReg>>

NextValSet == \E updates \in UpdateLists : UpdateValSet(updates)

SpecValSet == InitValSet /\ [][NextValSet]_vars

\* ------------------------------- simulation runner: validator set history
MaxElements == 3                     \* maxElements of the history: 1 .. 3
MaxAdds == 6                         \* number of calls of Add
MaxEvidence == 2                     \* pieces of evidence of one call
\* block time and validator set of the entries
HistoricValSets ==
    {<<1, <<[Power |-> 2, Address |-> 1]>> >>,
     <<2, <<[Power |-> 2, Address |-> 1], [Power |-> 1, Address |-> 2]>> >>}

\* WeightedValidators.TotalPower
RECURSIVE TotalPower(_)
TotalPower(v) == IF v = <<>> THEN 0 ELSE Head(v).Power + TotalPower(Tail(v))

\* variant: the block offset is not advanced when the oldest entry is dropped
HistoryAdd_OffsetKept(h, blockTime, vals) ==
    LET newEntry == [blockTime |-> blockTime, vals |-> vals, call |-> h.adds + 1]
    IN  IF Len(h.vals) >= h.maxElements
        THEN [h EXCEPT !.vals = Append(Tail(h.vals), newEntry),
                       !.adds = h.adds + 1]
        ELSE [h EXCEPT !.vals = Append(h.vals, newEntry), !.adds = h.adds + 1]

\* ValSetHistory.Add; call is no field of the entry: it is the number of
\* the call of Add that stored it
HistoryAdd(h, blockTime, vals) ==
    LET newEntry == [blockTime |-> blockTime, vals |-> vals, call |-> h.adds + 1]
    IN  IF Len(h.vals) >= h.maxElements
        THEN [h EXCEPT !.vals = Append(Tail(h.vals), newEntry),
                       !.blockOffset = h.blockOffset + 1,
                       !.adds = h.adds + 1]
        ELSE [h EXCEPT !.vals = Append(h.vals, newEntry), !.adds = h.adds + 1]

\* ValSetHistory.MissBehaviour: draws is the sequence of the random draws
\* <<n, k>> that passed the 1% test, n = r.Intn(len(h.vals)) an index
\* counted from 0 and k the validator picked by simsx.OneOf; no draw gives nil
MissBehaviour(h, draws) ==
    [i \in 1 .. Len(draws) |->
        LET n      == draws[i][1]
            badVal == h.vals[n + 1].vals[draws[i][2]]
        IN  [Validator        |-> [Address |-> badVal.Address,
                                   Power |-> badVal.Power],
             Height           |-> h.blockOffset + n,
             Time             |-> h.vals[n + 1].blockTime,
             TotalVotingPower |-> TotalPower(h.vals[n + 1].vals)]]

\* the draws that the random source can give on the history h
EvidenceDraws(h) ==
    UNION {[1 .. m -> {<<n, k>> \in (0 .. Len(h.vals) - 1) \X (1 .. 2) :
                          k <= Len(h.vals[n + 1].vals)}] :
           m \in 0 .. MaxEvidence}

InitValSetHistory ==
    /\ NoDistribution
    /\ lastCall = NoCall
    /\ activeValidatorSet = NewValSet
    /\ \E maxElements \in 1 .. MaxElements :
          valsetHistory = NewValSetHistory(maxElements)
    /\ futureOpsReg = NewFutureOpsRegistry("equal")

\* valsetHistory.Add(blockTime, activeValidatorSet), for the block time and
\* the active validator set of the block
AddValSet(blockTime, vals) ==
    /\ valsetHistory.adds < MaxAdds
    /\ activeValidatorSet' = vals
    /\ valsetHistory' = HistoryAdd(valsetHistory, blockTime, vals)
    /\ lastCall' = Call("Add", <<blockTime, vals>>, NoResult)
    /\ UNCHANGED <<distVars, futureOpsReg>>

\* Evidence: valsetHistory.MissBehaviour(r), once in a block, after the Add
ReportMissBehaviour(draws) ==
    /\ lastCall.op = "Add"
    /\ lastCall' = Call("MissBehaviour", draws, MissBehaviour(valsetHistory, draws))
    /\ UNCHANGED <<distVars, simVars>>

NextValSetHistory ==
    \/ \E entry \in HistoricValSets : AddValSet(entry[1], entry[2])
    \/ \E draws \in EvidenceDraws(valsetHistory) : ReportMissBehaviour(draws)

SpecValSetHistory == InitValSetHistory /\ [][NextValSetHistory]_vars

\* ------------------------------ simulation runner: future operations
MaxOps == 3                          \* number of calls of Add that store
MaxTime == 3                         \* block times 1 .. 3; 0 is the zero time
Nil == "nil"
Factories == {"fx1", "fx2"}          \* message factories

\* time.Time.IsZero
IsZero(t) == t = 0

\* timeComparator.Compare: declared for the skip list, lines 15-26
TimeCompare(lhs, rhs) == IF lhs < rhs THEN -1 ELSE IF lhs > rhs THEN 1 ELSE 0

\* the comparison of the skip list of registry l on two time.Time keys
KeyCompare(l, lhs, rhs) ==
    IF l.comparable = "timeComparator" THEN TimeCompare(lhs, rhs) ELSE 0

\* a keyed access to the skip list of l panics
KeyPanics(l) == l.comparable = "Int64" /\ l.int64OnTime = "panic"

\* SkipList.Get: the position of the element with an equal key, or 0
SkipGet(l, key) ==
    IF \E i \in 1 .. Len(l.list) : KeyCompare(l, l.list[i].key, key) = 0
    THEN CHOOSE i \in 1 .. Len(l.list) : KeyCompare(l, l.list[i].key, key) = 0
    ELSE 0

\* SkipList.Set: the value of the element with an equal key is replaced, or
\* a new element is inserted after the elements with a lower key
SkipSet(l, key, value) ==
    LET pos   == SkipGet(l, key)
        lower == Cardinality({i \in 1 .. Len(l.list) :
                                 KeyCompare(l, l.list[i].key, key) < 0})
    IN  IF pos # 0
        THEN [l.list EXCEPT ![pos].value = value]
        ELSE SubSeq(l.list, 1, lower)
                \o <<[key |-> key, value |-> value]>>
                \o SubSeq(l.list, lower + 1, Len(l.list))

\* FutureOpsRegistry.Add: the registry after the call and "panic" if it panics
RegistryAdd(l, blockTime, fx) ==
    IF fx = Nil THEN [l |-> l, err |-> "panic"]
    ELSE IF IsZero(blockTime) THEN [l |-> l, err |-> "-"]
    ELSE IF KeyPanics(l) THEN [l |-> l, err |-> "panic"]
    ELSE LET pos == SkipGet(l, blockTime)
             scheduledOps == IF pos # 0 THEN l.list[pos].value ELSE <<>>
             op == [fx |-> fx, id |-> Len(l.log) + 1]
         IN  [l |-> [l EXCEPT !.list = SkipSet(l, blockTime,
                                               Append(scheduledOps, op)),
                              !.log = Append(l.log, [time |-> blockTime,
                                                     id |-> op.id])],
              err |-> "-"]

\* the loop of FindScheduled: the elements at the front whose key is not
\* after blockTime are removed and their operations collected in r
RECURSIVE FindLoop(_, _, _)
FindLoop(list, blockTime, r) ==
    IF list = <<>> \/ Head(list).key > blockTime
    THEN [list |-> list, r |-> r]
    ELSE FindLoop(Tail(list), blockTime, r \o Head(list).value)

\* FutureOpsRegistry.FindScheduled: the registry after the call and the
\* operations returned
FindScheduled(l, blockTime) ==
    Bind(FindLoop(l.list, blockTime, <<>>), LAMBDA f :
        [l |-> [l EXCEPT !.list = f.list,
                         !.delivered = @ \cup {f.r[i].id : i \in 1 .. Len(f.r)}],
         r |-> f.r])

InitFutureOps ==
    /\ NoDistribution
    /\ lastCall = Call("-", "-", [err |-> "-", ops |-> <<>>])
    /\ activeValidatorSet = NewValSet
    /\ valsetHistory = NewValSetHistory(1)
    /\ \E int64OnTime \in {"panic", "equal"} :
          futureOpsReg = NewFutureOpsRegistry(int64OnTime)

\* a message factory schedules fx for blockTime
AddFutureOp(blockTime, fx) ==
    /\ ~Halted
    /\ Len(futureOpsReg.log) < MaxOps
    /\ \E a \in {RegistryAdd(futureOpsReg, blockTime, fx)} :
          /\ futureOpsReg' = a.l
          /\ lastCall' = Call("Add", <<blockTime, fx>>,
                              [err |-> a.err, ops |-> <<>>])
    /\ UNCHANGED <<distVars, activeValidatorSet, valsetHistory>>

\* fOps := futureOpsReg.FindScheduled(blockTime)
FindFutureOps(blockTime) ==
    /\ ~Halted
    /\ \E f \in {FindScheduled(futureOpsReg, blockTime)} :
          /\ futureOpsReg' = f.l
          /\ lastCall' = Call("FindScheduled", blockTime,
                              [err |-> "-", ops |-> f.r])
    /\ UNCHANGED <<distVars, activeValidatorSet, valsetHistory>>

NextFutureOps ==
    \/ \E blockTime \in 0 .. MaxTime, fx \in Factories \cup {Nil} :
          AddFutureOp(blockTime, fx)
    \/ \E blockTime \in 1 .. MaxTime : FindFutureOps(blockTime)

SpecFutureOps == InitFutureOps /\ [][NextFutureOps]_vars

\* ------------------------------------------------------------ properties
\* the last step was a withdrawal for delegator d
Withdrew(d) == lastCall.op = "withdraw" /\ lastCall.del = d

\* the last step was a withdrawal that returned no error
WithdrewOk == lastCall.op = "withdraw" /\ lastCall.r.err = "nil"

\* C1: a withdrawal for a pair without starting info returns
\* ErrEmptyDelegationDistInfo and changes no store (current period and
\* rewards, historical records and reference counts, outstanding rewards,
\* fee pool, starting infos, slash events); it requests no transfer, pays
\* nothing and emits no event.
C1_NoStartingInfoNoEffect ==
    [][\A d \in Delegators :
          (Withdrew(d)' /\ ~HasDelegatorStartingInfo(Store, d))
              => /\ lastCall'.r.err = "ErrEmptyDelegationDistInfo"
                 /\ UNCHANGED storeVars
                 /\ UNCHANGED stakingVars
                 /\ UNCHANGED paid
                 /\ ~lastCall'.r.requested
                 /\ ~lastCall'.r.emitted
                 /\ lastCall'.r.coins = NoCoins]_vars

\* C1 witness: such a withdrawal was made while another delegation exists
\* and rewards are outstanding
C1_Witness ==
    /\ lastCall.op = "withdraw"
    /\ lastCall.r.err = "ErrEmptyDelegationDistInfo"
    /\ DOMAIN startInfo # {}
    /\ ~CoinsIsZero(outstanding)
    /\ ~CoinsIsZero(curRewards)

\* C2: no over-payment.  The outstanding rewards are never negative, and in
\* every successful withdrawal the coins transferred are, per denomination,
\* at most the outstanding rewards read by that withdrawal, which writes
\* back the outstanding rewards minus the rewards.
C2_NoOverPayment ==
    /\ \A x \in Denoms : outstanding[x] >= 0
    /\ WithdrewOk =>
         \A x \in Denoms :
            /\ lastCall.r.transfer[x] * DecUnit <= lastCall.r.outstandingRead[x]
            /\ outstanding[x] = lastCall.r.outstandingRead[x] - lastCall.r.rewards[x]

\* C2 witness: after a slash, a withdrawal has paid coins and left rewards
\* outstanding
C2_Witness ==
    /\ WithdrewOk
    /\ lastCall.r.sent
    /\ slashEvents # {}
    /\ \E x \in Denoms : lastCall.r.transfer[x] > 0 /\ outstanding[x] > 0

\* C3: the coins paid to the delegators of the validator never exceed the
\* rewards allocated to it.
C3_PaidAtMostAllocated ==
    \A x \in Denoms : paid[x] * DecUnit <= allocated[x]

\* C3 witness: after a slash, all delegators have withdrawn, coins were paid
\* and truncated fractions went to the community pool
C3_Witness ==
    /\ slashEvents # {}
    /\ DOMAIN startInfo = {}
    /\ \E x \in Denoms :
          /\ paid[x] > 0
          /\ communityPool[x] > 0
          /\ paid[x] * DecUnit < allocated[x]

\* the store as the period ending of a withdrawal leaves it (step 2)
AfterPeriodEnding == IncrementValidatorPeriod(Store).s

\* C4: when finalRewards is non-zero and the transfer fails, the withdrawal
\* returns the error and applies none of the steps 7-9: outstanding rewards,
\* community pool and starting infos are unchanged, the historical records
\* and their reference counts are exactly those the period ending of the
\* same call has left (the count of the starting period is not decremented),
\* nothing is paid and no event is emitted.
C4_FailedTransferAppliesNoStep ==
    [][\A d \in Delegators :
          (Withdrew(d)' /\ lastCall'.r.err = "SendCoins")
              => /\ ~CoinsIsZero(lastCall'.r.transfer)
                 /\ ~lastCall'.r.sent
                 /\ outstanding' = outstanding
                 /\ communityPool' = communityPool
                 /\ startInfo' = startInfo
                 /\ hist' = AfterPeriodEnding.hist
                 /\ startInfo[d].previousPeriod \in DOMAIN hist'
                 /\ paid' = paid
                 /\ ~lastCall'.r.emitted
                 /\ lastCall'.r.coins = NoCoins]_vars

\* C4 witness: a transfer of a non-zero amount has failed while the
\* withdrawal would have moved a remainder to the community pool
C4_Witness ==
    /\ lastCall.op = "withdraw"
    /\ lastCall.r.err = "SendCoins"
    /\ ~CoinsIsZero(lastCall.r.transfer)
    /\ ~CoinsIsZero(lastCall.r.remainder)
    /\ lastCall.del \in DOMAIN startInfo

\* the mutations of a successful withdrawal for d, between two states
WithdrawalApplied(d) ==
    /\ curPeriod' = curPeriod + 1
    /\ curPeriod \in DOMAIN hist'
    /\ outstanding' = CoinsSub(outstanding, lastCall'.r.rewards)
    /\ communityPool' = CoinsAdd(communityPool, lastCall'.r.remainder)
    /\ d \notin DOMAIN startInfo'

\* C5: a withdrawal is all-or-nothing on the store: either it succeeds and
\* every mutation is applied, or it fails and no mutation is applied, the
\* period ending of step 2 included.
C5_AllOrNothing ==
    [][\A d \in Delegators :
          Withdrew(d)' =>
              \/ lastCall'.r.err = "nil" /\ WithdrawalApplied(d)
              \/ lastCall'.r.err # "nil" /\ UNCHANGED storeVars]_vars

\* the number of references to the historical record of period p: one per
\* starting info that starts at p, and the validator's own for the last
\* closed period
References(p) ==
    Cardinality({d \in DOMAIN startInfo : startInfo[d].previousPeriod = p})
        + (IF p = curPeriod - 1 THEN 1 ELSE 0)

C7_WithdrawalReleasesOneReference ==
    [][\A d \in Delegators :
          (Withdrew(d)' /\ lastCall'.r.err = "nil")
              => LET p   == startInfo[d].previousPeriod
                     mid == AfterPeriodEnding.hist
                 IN  /\ p \in DOMAIN mid
                     /\ mid[p].rc > 1 =>
                            /\ p \in DOMAIN hist'
                            /\ hist'[p] = [mid[p] EXCEPT !.rc = mid[p].rc - 1]
                     /\ mid[p].rc = 1 => p \notin DOMAIN hist'
                     /\ \A q \in (DOMAIN mid) \ {p} :
                            q \in DOMAIN hist' /\ hist'[q] = mid[q]
                     /\ DOMAIN hist' \subseteq DOMAIN mid
                     /\ (hist[p].rc = 2 /\ References(p) = 2 /\ p # curPeriod - 1)
                            => p \in DOMAIN hist' /\ hist'[p].rc = 1
                     /\ (hist[p].rc = 1 /\ p # curPeriod - 1)
                            => p \notin DOMAIN hist']_vars

\* C7 witness: two delegators referenced the same period with count 2 and
\* the first of them has withdrawn: the record is left with count 1
C7_Witness ==
    /\ WithdrewOk
    /\ slashEvents = {}
    /\ LET p == lastCall.r.info.previousPeriod
       IN  /\ p < lastCall.r.endingPeriod - 1
           /\ p \in DOMAIN hist
           /\ hist[p].rc = 1
           /\ \E e \in DOMAIN startInfo : startInfo[e].previousPeriod = p

\* C8: the historical record of the previous period of every starting info
\* is stored.
C8_StartingPeriodStored ==
    \A d \in DOMAIN startInfo : startInfo[d].previousPeriod \in DOMAIN hist

\* C8 witness: a record that only a delegation still references has
\* survived period endings that pruned another record
C8_Witness ==
    \E d \in DOMAIN startInfo :
        LET p == startInfo[d].previousPeriod
        IN  /\ p < curPeriod - 1
            /\ p \in DOMAIN hist
            /\ hist[p].rc = 1
            /\ \E q \in p + 1 .. curPeriod - 1 : q \notin DOMAIN hist

\* the slash events that split the rewards of a delegation started with
\* info, when its rewards are calculated up to period pe at height h
SplittingEvents(info, pe, h) ==
    {e \in slashEvents : /\ info.height < e.height /\ e.height <= h
                         /\ info.previousPeriod < e.period /\ e.period < pe}

\* floor(stake * (ratio[pb] - ratio[pa])) for denomination x, with the
\* ratios of the historical records rec
WindowRewards(rec, stake, pa, pb, x) ==
    (stake * (rec[pb].ratio[x] - rec[pa].ratio[x])) \div DecUnit

\* floor(stake * (1 - f))
StakeAfter(stake, f) == (stake * (DecUnit - f)) \div DecUnit

\* C9: when one slash event (fraction f, period s) lies strictly between
\* the starting period p0 and the ending period pe of a delegation, within
\* the walked heights, CalculateDelegationRewards returns
\* floor(stake0 * (ratio[s] - ratio[p0]))
\*   + floor(floor(stake0 * (1 - f)) * (ratio[pe] - ratio[s]))
\* per denomination; with two such events the decomposition is applied one
\* event at a time in ascending order.
C9_SlashAwareSplitting ==
    [][\A d \in Delegators :
          (Withdrew(d)' /\ HasDelegatorStartingInfo(Store, d))
              => LET info == startInfo[d]
                     p0   == info.previousPeriod
                     pe   == curPeriod
                     rec  == AfterPeriodEnding.hist
                     evs  == SplittingEvents(info, pe, height)
                     raw  == lastCall'.r.rewardsRaw
                 IN  /\ Cardinality(evs) = 1 =>
                         LET e  == CHOOSE e \in evs : TRUE
                             s1 == StakeAfter(info.stake, e.fraction)
                         IN  /\ lastCall'.r.err # "panic"
                             /\ \A x \in Denoms :
                                  raw[x] = WindowRewards(rec, info.stake, p0, e.period, x)
                                         + WindowRewards(rec, s1, e.period, pe, x)
                     /\ Cardinality(evs) = 2 =>
                         LET e1 == CHOOSE e \in evs :
                                     \A o \in evs \ {e} : EventBefore(e, o)
                             e2 == CHOOSE e \in evs : e # e1
                             s1 == StakeAfter(info.stake, e1.fraction)
                             s2 == StakeAfter(s1, e2.fraction)
                         IN  /\ lastCall'.r.err # "panic"
                             /\ \A x \in Denoms :
                                  raw[x] = WindowRewards(rec, info.stake, p0, e1.period, x)
                                         + WindowRewards(rec, s1, e1.period, e2.period, x)
                                         + WindowRewards(rec, s2, e2.period, pe, x)]_vars

\* C9 witness: a delegation of stake 100 was slashed by 0.5 between its
\* start and its withdrawal; rewards accrued before and after the slash, and
\* the result is less than the stake of 100 applied to the whole window
C9_Witness ==
    /\ WithdrewOk
    /\ lastCall.r.info.stake = 100 * DecUnit
    /\ \E e \in SplittingEvents(lastCall.r.info, lastCall.r.endingPeriod, height) :
         \E x \in Denoms :
           LET after == (StakeAfter(lastCall.r.info.stake, e.fraction)
                           * (hist[lastCall.r.endingPeriod].ratio[x]
                                - hist[e.period].ratio[x])) \div DecUnit
               whole == (lastCall.r.info.stake
                           * hist[lastCall.r.endingPeriod].ratio[x]) \div DecUnit
           IN  /\ StakeAfter(lastCall.r.info.stake, e.fraction) = 50 * DecUnit
               /\ after > 0
               /\ lastCall.r.rewardsRaw[x] > after
               /\ lastCall.r.rewardsRaw[x] < whole
               /\ hist[e.period].ratio[x] * lastCall.r.info.stake
                      = (lastCall.r.rewardsRaw[x] - after) * DecUnit

\* C10: with no slash event in the window and computed rewards within the
\* outstanding rewards, a withdrawal at a later height than the
\* initialization pays per denomination the integer part of
\* stake * (ratio[endingPeriod] - ratio[previousPeriod]) and adds the
\* fractional part to the community pool; stake 100 and a ratio increase of
\* 0.1 pay 10 tokens and add nothing to the community pool.
C10_PaysIntegerPart ==
    [][\A d \in Delegators :
          (Withdrew(d)' /\ lastCall'.r.err = "nil")
              => LET info == startInfo[d]
                     pe   == curPeriod
                     rec  == AfterPeriodEnding.hist
                     full == [x \in Denoms |->
                                WindowRewards(rec, info.stake,
                                              info.previousPeriod, pe, x)]
                 IN  (/\ info.height < height
                      /\ {e \in slashEvents :
                             info.height < e.height /\ e.height <= height} = {}
                      /\ \A x \in Denoms : full[x] <= AfterPeriodEnding.outstanding[x])
                     => \A x \in Denoms :
                          /\ lastCall'.r.sent = (\E y \in Denoms : full[y] >= DecUnit)
                          /\ lastCall'.r.transfer[x] = full[x] \div DecUnit
                          /\ paid'[x] = paid[x] + (full[x] \div DecUnit)
                          /\ communityPool'[x] = communityPool[x] + (full[x] % DecUnit)
                          /\ outstanding'[x] = outstanding[x] - full[x]
                          /\ (/\ info.stake = 100 * DecUnit
                              /\ rec[pe].ratio[x] - rec[info.previousPeriod].ratio[x]
                                     = DecUnit \div 10)
                             => /\ lastCall'.r.transfer[x] = 10
                                /\ lastCall'.r.coins = {[denom |-> x, amount |-> 10]}
                                /\ communityPool'[x] = communityPool[x]]_vars

\* C10 witness: stake 100, no slash, a ratio increase of 0.1: the withdrawal
\* at a later height has paid 10 tokens and left no remainder
C10_Witness ==
    /\ WithdrewOk
    /\ slashEvents = {}
    /\ lastCall.r.info.stake = 100 * DecUnit
    /\ lastCall.r.info.height < height
    /\ hist[lastCall.r.endingPeriod].ratio = [x \in Denoms |-> DecUnit \div 10]
    /\ lastCall.r.rewardsRaw = [x \in Denoms |-> 10 * DecUnit]
    /\ lastCall.r.transfer = [x \in Denoms |-> 10]
    /\ lastCall.r.sent
    /\ lastCall.r.remainder = ZeroCoins

\* C11: when the raw reward exceeds the outstanding rewards in some
\* denomination, the withdrawal does not fail because of it: the rewards are
\* the minimum of raw reward and outstanding per denomination, the
\* withdrawal completes with that amount (unless the transfer itself
\* fails), and the outstanding rewards of every clamped denomination are
\* left at zero.
C11_ClampToOutstanding ==
    [][\A d \in Delegators :
          (Withdrew(d)' /\ HasDelegatorStartingInfo(Store, d))
              => LET mid     == AfterPeriodEnding
                     calc    == CalculateDelegationRewards(mid, d, curPeriod, height)
                     raw     == calc.rewards
                     out     == mid.outstanding
                     clamped == {x \in Denoms : raw[x] > out[x]}
                     rewards == [x \in Denoms |-> Min(raw[x], out[x])]
                 IN  (~mid.fault /\ ~calc.fault /\ clamped # {})
                     => /\ lastCall'.r.err \in {"nil", "SendCoins"}
                        /\ lastCall'.r.err = "SendCoins"
                              => /\ \E x \in Denoms : rewards[x] >= DecUnit
                                 /\ ~lastCall'.r.sent
                        /\ lastCall'.r.rewardsRaw = raw
                        /\ lastCall'.r.rewards = rewards
                        /\ lastCall'.r.err = "nil"
                              => /\ \A x \in Denoms :
                                      /\ lastCall'.r.transfer[x]
                                             = rewards[x] \div DecUnit
                                      /\ outstanding'[x] = out[x] - rewards[x]
                                      /\ communityPool'[x]
                                             = mid.pool[x] + (rewards[x] % DecUnit)
                                 /\ \A x \in clamped : outstanding'[x] = 0
                                 /\ d \notin DOMAIN startInfo'
                                 /\ lastCall'.r.emitted]_vars

\* C11 witness: raw rewards above the outstanding 5.5 were withdrawn: 5
\* coins paid, 0.5 to the community pool, nothing left outstanding
C11_Witness ==
    /\ WithdrewOk
    /\ lastCall.r.sent
    /\ \E x \in Denoms :
          /\ lastCall.r.rewardsRaw[x] > lastCall.r.outstandingRead[x]
          /\ lastCall.r.outstandingRead[x] = 550
          /\ lastCall.r.transfer[x] = 5
          /\ lastCall.r.remainder[x] = 50
          /\ outstanding[x] = 0

\* the last step was a call of CalculateDelegationRewards for delegator d
Calculated(d) ==
    lastCall.op = "calculate" /\ \E ep \in 1 .. AnyPeriod : lastCall.del = <<d, ep>>

\* C12: for a starting info recorded at the current block height,
\* CalculateDelegationRewards returns zero rewards and does not panic, for
\* every ending period, slash log, stake and historical ratios; a
\* withdrawal at that height computes zero raw rewards and pays nothing.
C12_SameHeightZeroRewards ==
    [][\A d \in Delegators :
          /\ (Calculated(d)' /\ startInfo[d].height = height)
                => /\ lastCall'.r.err = "nil"
                   /\ lastCall'.r.rewards = ZeroCoins
          /\ (Withdrew(d)' /\ HasDelegatorStartingInfo(Store, d)
                 /\ ~AfterPeriodEnding.fault /\ startInfo[d].height = height)
                => /\ lastCall'.r.err = "nil"
                   /\ lastCall'.r.rewardsRaw = ZeroCoins
                   /\ lastCall'.r.transfer = ZeroCoins
                   /\ ~lastCall'.r.requested]_vars

\* C12 witness: zero rewards were returned for a starting info of the
\* current height although the slash log is not empty, the stake check
\* would fail and the ratio of the ending period is below the starting one
C12_Witness ==
    \E d \in DOMAIN startInfo :
        /\ Calculated(d)
        /\ lastCall.r.err = "nil"
        /\ lastCall.r.rewards = ZeroCoins
        /\ startInfo[d].height = height
        /\ slashEvents # {}
        /\ StakeSanityCheck(Store, d, startInfo[d].stake).fault
        /\ \E x \in Denoms :
              GetValidatorHistoricalRewards(Store, lastCall.del[2]).ratio[x]
                  < hist[startInfo[d].previousPeriod].ratio[x]

\* C13: the current period never decreases; a step either leaves it or
\* increases it by exactly one, and then writes the historical record of the
\* closed period, which was not stored before (no period is reused).  Every
\* withdrawal that finds a starting info closes exactly one period, whatever
\* its outcome; one that finds none closes no period.
C13_PeriodsIncreaseByOne ==
    [][/\ curPeriod' = curPeriod \/ curPeriod' = curPeriod + 1
       /\ curPeriod' = curPeriod + 1
             => curPeriod \notin DOMAIN hist /\ curPeriod \in DOMAIN hist'
       /\ \A p \in DOMAIN hist' : p < curPeriod'
       /\ \A d \in Delegators :
             Withdrew(d)' =>
                 IF HasDelegatorStartingInfo(Store, d)
                 THEN curPeriod' = curPeriod + 1
                         /\ lastCall'.r.endingPeriod = curPeriod
                 ELSE curPeriod' = curPeriod]_vars

\* C13 witness: a withdrawal whose transfer failed has closed a period
\* after other operations had closed earlier ones
C13_Witness ==
    /\ lastCall.op = "withdraw"
    /\ lastCall.r.err = "SendCoins"
    /\ lastCall.r.endingPeriod >= 3
    /\ curPeriod = lastCall.r.endingPeriod + 1
    /\ lastCall.r.endingPeriod \in DOMAIN hist
    /\ slashEvents # {}

\* C14: for all stored periods p1 <= p2 the cumulative reward ratio of p1
\* is at most that of p2 in every denomination; consequently
\* calculateDelegationRewardsBetween finds no negative difference, and does
\* not panic, for stored periods p1 <= p2 and a non-negative stake.
C14_RatioMonotone ==
    \A p1, p2 \in DOMAIN hist :
        p1 <= p2 =>
            /\ \A x \in Denoms : hist[p1].ratio[x] <= hist[p2].ratio[x]
            /\ ~IsAnyNegative(CoinsSub(hist[p2].ratio, hist[p1].ratio))
            /\ ~calculateDelegationRewardsBetween(Store, p1, p2, DecUnit).fault

\* C14 witness: three stored periods, the ratio grows from the first to the
\* second and stays from the second to the third
C14_Witness ==
    \E p1, p2, p3 \in DOMAIN hist :
        /\ p1 < p2 /\ p2 < p3
        /\ \E x \in Denoms :
              /\ hist[p1].ratio[x] < hist[p2].ratio[x]
              /\ hist[p2].ratio[x] = hist[p3].ratio[x]

\* C15: the previousPeriod of every starting info is at most the current
\* period of the validator.  A delegation initialization stores exactly the
\* current period minus one; the current period is at least 1 then, a
\* period ending having occurred before, so the subtraction on the unsigned
\* period does not wrap around.
C15_PreviousPeriodBelowCurrent ==
    [][/\ \A d \in DOMAIN startInfo' :
             /\ 0 <= startInfo'[d].previousPeriod
             /\ startInfo'[d].previousPeriod <= curPeriod'
       /\ \A d \in Delegators :
             (d \notin DOMAIN startInfo /\ d \in DOMAIN startInfo')
                 => /\ curPeriod >= 1
                    /\ periodEnded
                    /\ curPeriod - 1 \in DOMAIN hist
                    /\ startInfo'[d].previousPeriod = curPeriod - 1
                    /\ curPeriod' = curPeriod]_vars

\* C15 witness: one delegation has just been initialized at the current
\* period minus one while another one started periods ago
C15_Witness ==
    \E d, e \in DOMAIN startInfo :
        /\ lastCall = NoCall
        /\ startInfo[d].previousPeriod = curPeriod - 1
        /\ startInfo[d].height = height
        /\ startInfo[e].previousPeriod >= 1
        /\ startInfo[e].previousPeriod < curPeriod - 2

\* the running [rewards, stake, startingPeriod, fault] after the slash walk
\* of CalculateDelegationRewards for the starting info of d at this height
WalkedFrom(d) ==
    SlashWalk(Store,
              IterateValidatorSlashEventsBetween(Store, startInfo[d].height, height),
              [rewards        |-> ZeroCoins,
               stake          |-> startInfo[d].stake,
               startingPeriod |-> startInfo[d].previousPeriod,
               fault          |-> FALSE])

\* stakes and slash fractions in [0, 1] on which one slash step is evaluated
StakeSamples == {0, 1, 99, 750, 30 * DecUnit, 100 * DecUnit}
FractionSamples == {0, 1, 50, 99, DecUnit}

\* C16: the stake of every starting info is non-negative; one slash step
\* stake := floor(stake * (1 - fraction)) keeps a non-negative stake
\* non-negative (and does not increase it) for fractions in [0, 1]; the
\* slash walk of every stored starting info ends with a non-negative stake
\* and raises no fault.
C16_StakeNonNegative ==
    /\ \A d \in DOMAIN startInfo : startInfo[d].stake >= 0
    /\ \A st \in StakeSamples, f \in FractionSamples :
          SlashedStake(st, f) >= 0 /\ SlashedStake(st, f) <= st
    /\ \A d \in DOMAIN startInfo :
          WalkedFrom(d).stake >= 0 /\ ~WalkedFrom(d).fault

\* C16 witness: a stake of 30 has been slashed twice by 0.5 in the walk, to
\* 7.5
C16_Witness ==
    \E d \in DOMAIN startInfo :
        /\ startInfo[d].stake = 30 * DecUnit
        /\ Cardinality(slashEvents) = 2
        /\ WalkedFrom(d).stake = 750
        /\ WalkedFrom(d).startingPeriod > startInfo[d].previousPeriod + 1

C19_WithdrawnAtMostOnce ==
    [][\A d \in Delegators :
          /\ (Withdrew(d)' /\ lastCall'.r.err = "nil")
                => d \in DOMAIN startInfo /\ d \notin DOMAIN startInfo'
          /\ (d \notin DOMAIN startInfo /\ d \in DOMAIN startInfo')
                => lastCall'.op # "withdraw" /\ startInfo'[d].height = height
          /\ (Withdrew(d)' /\ (d \notin DOMAIN startInfo
                                 \/ (Withdrew(d) /\ lastCall.r.err = "nil")))
                => /\ lastCall'.r.err = "ErrEmptyDelegationDistInfo"
                   /\ lastCall'.r.coins = NoCoins
                   /\ ~lastCall'.r.requested
                   /\ paid' = paid
                   /\ UNCHANGED storeVars]_vars

\* C19 witness: the only delegator has been paid, rewards have been
\* allocated since, and its next withdrawal without a new initialization
\* has failed
C19_Witness ==
    \E d \in Delegators :
        /\ Withdrew(d)
        /\ lastCall.r.err = "ErrEmptyDelegationDistInfo"
        /\ delShares[d] > 0
        /\ valShares = delShares[d]
        /\ \E x \in Denoms : paid[x] > 0 /\ curRewards[x] > 0
        /\ DOMAIN startInfo = {}

\* the cumulative reward ratio read for period p: zero for a missing record
RatioOf(p) == IF p \in DOMAIN hist THEN hist[p].ratio ELSE ZeroCoins

\* C20: calculateDelegationRewardsBetween panics exactly when
\* startingPeriod > endingPeriod, or the stake is negative, or
\* ratio[endingPeriod] - ratio[startingPeriod] is negative in some
\* denomination; in every other case it returns the difference times the
\* stake, truncated per denomination; it modifies no state.
C20_BetweenPanicsExactly ==
    [][lastCall'.op = "between" =>
          LET startingPeriod == lastCall'.del[1]
              endingPeriod   == lastCall'.del[2]
              stake          == lastCall'.del[3]
              difference == [x \in Denoms |->
                               RatioOf(endingPeriod)[x] - RatioOf(startingPeriod)[x]]
              faulty == \/ startingPeriod > endingPeriod
                        \/ stake < 0
                        \/ \E x \in Denoms : difference[x] < 0
          IN  /\ lastCall'.r.err = "panic" <=> faulty
              /\ ~faulty =>
                    /\ lastCall'.r.err = "nil"
                    /\ \A x \in Denoms :
                          lastCall'.r.rewards[x] = (difference[x] * stake) \div DecUnit
              /\ UNCHANGED <<storeVars, stakingVars, height>>]_vars

\* C20 witness: the call has panicked on a negative ratio difference alone
C20_Witness ==
    /\ lastCall.op = "between"
    /\ lastCall.r.err = "panic"
    /\ lastCall.del[1] < lastCall.del[2]
    /\ lastCall.del[3] > 0
    /\ \E x \in Denoms : RatioOf(lastCall.del[2])[x] < RatioOf(lastCall.del[1])[x]

\* the running [rewards, stake, startingPeriod, fault] after the slash walk
\* of CalculateDelegationRewards on the store s for the starting info of d
\* at height h
Walked(s, d, h) ==
    SlashWalk(s, IterateValidatorSlashEventsBetween(s, s.info[d].height, h),
              [rewards        |-> ZeroCoins,
               stake          |-> s.info[d].stake,
               startingPeriod |-> s.info[d].previousPeriod,
               fault          |-> FALSE])

\* the rewards of CalculateDelegationRewards when the final window is
\* computed with stake after the walk w: the sum, or a panic
Reconciled(s, w, endingPeriod, stake) ==
    LET last == calculateDelegationRewardsBetween(
                    s, w.startingPeriod, endingPeriod, stake)
    IN  IF last.fault THEN [err |-> "panic", rewards |-> ZeroCoins]
        ELSE [err |-> "nil", rewards |-> CoinsAdd(w.rewards, last.rewards)]

\* C21: stake reconciliation after the slash walk.  With currentStake the
\* tokens of the delegation's shares: an accumulated stake of at most
\* currentStake is used unchanged for the final window; one that exceeds
\* currentStake by at most 3 units of the smallest decimal precision is
\* replaced by currentStake and the calculation continues; one that exceeds
\* it by more makes CalculateDelegationRewards panic and return no rewards
\* (a withdrawal then panics as well).
C21_StakeReconciliation ==
    [][\A d \in Delegators :
          /\ (Calculated(d)' /\ startInfo[d].height # height
                 /\ ~Walked(Store, d, height).fault)
                => LET w  == Walked(Store, d, height)
                       ep == lastCall'.del[2]
                       currentStake == TokensFromShares(Store, delShares[d])
                   IN  /\ w.stake <= currentStake
                            => lastCall'.r = Reconciled(Store, w, ep, w.stake)
                       /\ (w.stake > currentStake
                              /\ w.stake <= currentStake + MarginUnits)
                            => lastCall'.r = Reconciled(Store, w, ep, currentStake)
                       /\ w.stake > currentStake + MarginUnits
                            => /\ lastCall'.r.err = "panic"
                               /\ lastCall'.r.rewards = ZeroCoins
          /\ (Withdrew(d)' /\ HasDelegatorStartingInfo(Store, d)
                 /\ startInfo[d].height # height
                 /\ ~AfterPeriodEnding.fault
                 /\ ~Walked(AfterPeriodEnding, d, height).fault)
                => LET w == Walked(AfterPeriodEnding, d, height)
                       currentStake == TokensFromShares(Store, delShares[d])
                       used == IF w.stake <= currentStake THEN w.stake
                               ELSE currentStake
                   IN  IF w.stake > currentStake + MarginUnits
                       THEN lastCall'.r.err = "panic"
                       ELSE LET r == Reconciled(AfterPeriodEnding, w,
                                                curPeriod, used)
                            IN  IF r.err = "panic"
                                THEN lastCall'.r.err = "panic"
                                ELSE lastCall'.r.rewardsRaw = r.rewards]_vars

\* C21 witness: an accumulated stake of 100.03 against a current stake of
\* 100 was replaced by 100 and rewards were returned for it
C21_Witness ==
    \E d \in DOMAIN startInfo :
        /\ Calculated(d)
        /\ lastCall.r.err = "nil"
        /\ startInfo[d].height # height
        /\ Walked(Store, d, height).stake = 100 * DecUnit + MarginUnits
        /\ TokensFromShares(Store, delShares[d]) = 100 * DecUnit
        /\ \E x \in Denoms :
              /\ lastCall.r.rewards[x] > 0
              /\ lastCall.r.rewards[x] =
                    WindowRewards(hist, 100 * DecUnit,
                                  startInfo[d].previousPeriod, lastCall.del[2], x)

\* the step ends the current period of the validator
PeriodEnds == curPeriod' = curPeriod + 1

\* the step is a period ending and nothing else: the operation EndPeriod,
\* or a withdrawal that returned after its period ending because the
\* transfer failed
PeriodEndsOnly ==
    /\ PeriodEnds
    /\ \/ lastCall'.op = "-" /\ slashEvents' = slashEvents
       \/ lastCall'.op = "withdraw" /\ lastCall'.r.err = "SendCoins"

\* the historical entry written for the closed period n and the new current
\* rewards, with t the tokens of the validator
ClosedPeriodWritten ==
    LET n == curPeriod
    IN  /\ n \in DOMAIN hist'
        /\ valTokens > 0 =>
              \A x \in Denoms :
                 hist'[n].ratio[x] = RatioOf(n - 1)[x] + (curRewards[x] \div valTokens)
        /\ valTokens = 0 => hist'[n].ratio = RatioOf(n - 1)
        /\ curPeriod' = n + 1
        /\ curRewards' = ZeroCoins
        /\ lastCall'.op = "withdraw" => lastCall'.r.endingPeriod = n

C23_Conservation ==
    [][\A d \in Delegators :
          (Withdrew(d)' /\ lastCall'.r.err = "nil")
              => \A x \in Denoms :
                   LET rewards      == lastCall'.r.rewards[x]
                       finalRewards == lastCall'.r.transfer[x]
                       remainder    == lastCall'.r.remainder[x]
                   IN  /\ rewards = Min(lastCall'.r.rewardsRaw[x], outstanding[x])
                       /\ outstanding'[x] = outstanding[x] - rewards
                       /\ communityPool'[x] = communityPool[x] + remainder
                       /\ finalRewards * DecUnit + remainder = rewards
                       /\ 0 <= remainder /\ remainder < DecUnit
                       /\ paid'[x] = paid[x] + finalRewards
                       /\ outstanding[x] = outstanding'[x]
                                             + (paid'[x] - paid[x]) * DecUnit
                                             + (communityPool'[x] - communityPool[x])
                       /\ outstanding'[x] >= 0]_vars

\* C23 witness: clamped rewards with a fractional part were withdrawn from
\* an outstanding amount that exceeds them in no denomination: whole coins
\* were transferred, the fraction is in the community pool and together
\* they are what the outstanding rewards have lost
C23_Witness ==
    /\ WithdrewOk
    /\ lastCall.r.rewards # lastCall.r.rewardsRaw
    /\ \E x \in Denoms :
          /\ lastCall.r.remainder[x] > 0
          /\ paid[x] > 0
          /\ communityPool[x] = lastCall.r.remainder[x]
          /\ lastCall.r.outstandingRead[x]
                = outstanding[x] + paid[x] * DecUnit + communityPool[x]

\* the statements of a withdrawal that write, in the order of the code
WriteOrder ==
    <<"transfer", "setOutstanding", "setFeePool", "decrement", "delete", "emit">>

\* a call of withdrawDelegationRewards has returned
Returned == lastCall.op = "withdraw" /\ phase = "txs"

\* every transfer requested by the running call has succeeded
TransfersOk ==
    \A i \in 1 .. Len(lastCall.r.transfers) : lastCall.r.transfers[i].ok

\* C24: within one withdrawal the writes occur in this order: the transfer
\* to the withdraw address (when finalRewards is not zero), the subtraction
\* from the outstanding rewards, the addition to the community pool, the
\* decrement of the reference count, the deletion of the starting info, the
\* event.  Each of them happens at its own statement only, the statements
\* are passed in that order, and the reference count is never decremented
\* in an execution whose transfer has failed.
C24_WriteOrder ==
    [][/\ Len(lastCall'.r.transfers) > Len(lastCall.r.transfers)
             => phase = "transfer"
       /\ outstanding' # outstanding => phase = "setOutstanding"
       /\ communityPool' # communityPool => phase = "setFeePool"
       /\ hist' # hist => phase \in {"endPeriod", "decrement"}
       /\ startInfo' # startInfo => phase = "delete"
       /\ Len(lastCall'.r.events) > Len(lastCall.r.events) => phase = "emit"
       /\ \A i \in 1 .. Len(WriteOrder) :
             (phase = WriteOrder[i] /\ phase' # phase)
                => \/ i < Len(WriteOrder) /\ phase' = WriteOrder[i + 1]
                   \/ i = Len(WriteOrder) /\ phase' = "txs"
                   \/ /\ i = 1
                      /\ phase' = "txs"
                      /\ lastCall'.r.err = "SendCoins"
       /\ phase = "setOutstanding"
             => /\ CoinsIsZero(lastCall.r.finalRewards) \/ Len(lastCall.r.transfers) = 1
                /\ TransfersOk
       /\ phase = "setFeePool"
             => outstanding = CoinsSub(lastCall.r.outstanding, lastCall.r.rewards)
       /\ phase = "decrement"
             => /\ TransfersOk
                /\ lastCall.r.err # "SendCoins"
                /\ lastCall.del \in DOMAIN startInfo
                /\ lastCall.r.events = <<>>
       /\ phase = "emit" => lastCall.del \notin DOMAIN startInfo
       /\ lastCall'.r.err = "SendCoins"
             => /\ hist' = hist
                /\ phase' = "txs"
                /\ lastCall.del \in DOMAIN startInfo'
                /\ startInfo'[lastCall.del].previousPeriod \in DOMAIN hist']_vars

\* C24 witness: the reference count is about to be decremented after a
\* transfer has succeeded, the outstanding rewards have been reduced and a
\* remainder has been added to the community pool; the starting info is
\* still stored and no event has been emitted
C24_Witness ==
    /\ phase = "decrement"
    /\ Len(lastCall.r.transfers) = 1
    /\ lastCall.r.transfers[1].ok
    /\ outstanding = CoinsSub(lastCall.r.outstanding, lastCall.r.rewards)
    /\ ~CoinsIsZero(lastCall.r.remainder)
    /\ communityPool = lastCall.r.remainder
    /\ lastCall.del \in DOMAIN startInfo
    /\ lastCall.r.events = <<>>

\* C25: exactly one withdraw-rewards event is emitted per successful
\* withdrawal, as the last statement, after all store updates of that
\* withdrawal; it carries the returned amount, the operator address of the
\* validator and the address of the delegator.  A withdrawal that returns
\* an error, or panics, emits no withdraw-rewards event.
C25_OneEventPerSuccess ==
    [][/\ Len(lastCall'.r.events) > Len(lastCall.r.events)
             => /\ phase = "emit" /\ phase' = "txs"
                /\ lastCall.r.events = <<>>
                /\ lastCall'.r.err = "nil"
                /\ lastCall'.r.coins # NoCoins
                /\ lastCall'.r.events =
                      <<[type |-> EventTypeWithdrawRewards,
                         amount |-> lastCall'.r.coins,
                         validator |-> ValidatorAddr,
                         delegator |-> lastCall.del]>>
                /\ UNCHANGED <<storeVars, paid>>
                /\ outstanding = CoinsSub(lastCall.r.outstanding, lastCall.r.rewards)
                /\ lastCall.del \notin DOMAIN startInfo
       /\ Returned' =>
             IF lastCall'.r.err = "nil"
             THEN Len(lastCall'.r.events) = 1
             ELSE lastCall'.r.events = <<>>
       /\ Halted' => lastCall'.r.events = <<>>
       /\ (Returned /\ lastCall.r.err = "nil") => UNCHANGED <<storeVars, paid>>]_vars

\* C25 witness: a withdrawal that transferred 5 coins has returned them and
\* emitted its event for the pair
C25_Witness ==
    /\ Returned
    /\ lastCall.r.err = "nil"
    /\ lastCall.r.coins = {[denom |-> DefaultBondDenom, amount |-> 5]}
    /\ lastCall.r.events =
          <<[type |-> EventTypeWithdrawRewards,
             amount |-> {[denom |-> DefaultBondDenom, amount |-> 5]},
             validator |-> ValidatorAddr, delegator |-> "d1"]>>
    /\ DOMAIN startInfo = {}

\* C26: the transfer collaborator is invoked if and only if the whole-coin
\* finalRewards are not zero, once, with the configured withdraw address of
\* the delegator as destination.  With zero finalRewards no transfer is
\* requested, and the withdrawal still succeeds: it subtracts the (purely
\* fractional) rewards from the outstanding rewards, moves them entirely to
\* the community pool, decrements the reference count and deletes the
\* starting info.
C26_TransferIffNonZero ==
    [][/\ (phase = "transfer" /\ phase' # phase) =>
             IF CoinsIsZero(lastCall.r.finalRewards)
             THEN /\ lastCall'.r.transfers = <<>>
                  /\ lastCall'.r.err = "-"
                  /\ phase' = "setOutstanding"
                  /\ lastCall.r.remainder = lastCall.r.rewards
             ELSE /\ Len(lastCall'.r.transfers) = 1
                  /\ lastCall'.r.transfers[1].to = WithdrawAddr[lastCall.del]
                  /\ lastCall'.r.transfers[1].amount = lastCall.r.finalRewards
       /\ Len(lastCall'.r.transfers) > Len(lastCall.r.transfers)
             => /\ phase = "transfer"
                /\ lastCall.r.transfers = <<>>
                /\ ~CoinsIsZero(lastCall.r.finalRewards)
       /\ (phase \in {"setOutstanding", "setFeePool", "decrement", "delete", "emit"}
              /\ CoinsIsZero(lastCall.r.finalRewards))
             => /\ lastCall.r.transfers = <<>>
                /\ paid' = paid
                /\ phase = "setOutstanding"
                      => outstanding' = CoinsSub(outstanding, lastCall.r.rewards)
                /\ phase = "setFeePool"
                      => communityPool' = CoinsAdd(communityPool, lastCall.r.rewards)
                /\ phase = "decrement"
                      => LET p == startInfo[lastCall.del].previousPeriod
                         IN  /\ p \in DOMAIN hist
                             /\ lastCall'.r.err = "-"
                             /\ IF hist[p].rc = 1 THEN p \notin DOMAIN hist'
                                ELSE /\ p \in DOMAIN hist'
                                     /\ hist'[p].rc = hist[p].rc - 1
                /\ phase = "delete"
                      => /\ lastCall.del \in DOMAIN startInfo
                         /\ lastCall.del \notin DOMAIN startInfo'
                /\ phase = "emit"
                      => /\ lastCall'.r.err = "nil"
                         /\ lastCall'.r.coins =
                               {[denom |-> DefaultBondDenom, amount |-> 0]}]_vars

\* C26 witness: rewards of 0.5 were withdrawn without any transfer: the
\* withdrawal has succeeded, the outstanding rewards have lost 0.5, the
\* community pool has gained 0.5 and the starting info is deleted
C26_Witness ==
    /\ Returned
    /\ lastCall.r.err = "nil"
    /\ lastCall.r.transfers = <<>>
    /\ lastCall.r.rewards = [x \in Denoms |-> 50]
    /\ lastCall.r.outstanding = [x \in Denoms |-> 50]
    /\ outstanding = ZeroCoins
    /\ communityPool = [x \in Denoms |-> 50]
    /\ paid = ZeroCoins
    /\ lastCall.del \notin DOMAIN startInfo

\* the slash events that the walk for the starting info of d has to visit:
\* those of the validator at the heights of (startingInfo.height, height]
VisitedEvents(d) ==
    {e \in slashEvents : /\ e.validator = ValidatorAddr
                         /\ startInfo[d].height < e.height
                         /\ e.height <= height}

\* the callback of the walk applied height by height, from height h to
\* height last, to the events of the validator recorded at each height
RECURSIVE WalkByHeight(_, _, _, _)
WalkByHeight(s, h, last, acc) ==
    IF h > last THEN acc
    ELSE WalkByHeight(s, h + 1, last,
             SlashWalk(s, SortEvents({e \in s.slashes :
                                         /\ e.validator = ValidatorAddr
                                         /\ e.height = h}), acc))

\* the result of CalculateDelegationRewards for d and endingPeriod after
\* the walk w: the stake check, then the final window
AfterWalk(d, w, endingPeriod) ==
    LET currentStake == TokensFromShares(Store, delShares[d])
    IN  IF w.fault \/ w.stake > currentStake + MarginUnits
        THEN [err |-> "panic", rewards |-> ZeroCoins]
        ELSE Reconciled(Store, w, endingPeriod, Min(w.stake, currentStake))

WalkEvents(d) ==
    IterateValidatorSlashEventsBetween(Store, startInfo[d].height, height)

\* the running [rewards, stake, startingPeriod, fault] of the walk for the
\* starting info of d after its first k events
WalkPrefix(d, k) ==
    SlashWalk(Store, SubSeq(WalkEvents(d), 1, k),
              [rewards        |-> ZeroCoins,
               stake          |-> startInfo[d].stake,
               startingPeriod |-> startInfo[d].previousPeriod,
               fault          |-> FALSE])

\* C28: during the slash walk, a visited event whose validatorPeriod is at
\* most the running startingPeriod leaves the accumulated reward, the
\* running stake and the running startingPeriod unchanged (its fraction is
\* not applied); an event whose validatorPeriod is greater adds the reward
\* of the window from the running startingPeriod to its period for the
\* running stake, shrinks the stake to floor(stake * (1 - fraction)) and
\* advances startingPeriod to its period.  The running startingPeriod never
\* decreases, and the call returns what the stake check and the final
\* window give after the last event.
C28_WalkStep ==
    [][\A d \in Delegators :
          (Calculated(d)' /\ startInfo[d].height < height)
              => /\ \A k \in 1 .. Len(WalkEvents(d)) :
                       LET a == WalkPrefix(d, k - 1)
                           b == WalkPrefix(d, k)
                           e == WalkEvents(d)[k]
                       IN  /\ ~a.fault /\ ~b.fault
                           /\ b.startingPeriod >= a.startingPeriod
                           /\ IF e.period <= a.startingPeriod
                              THEN /\ b.rewards = a.rewards
                                   /\ b.stake = a.stake
                                   /\ b.startingPeriod = a.startingPeriod
                              ELSE /\ \A x \in Denoms :
                                         b.rewards[x] = a.rewards[x]
                                            + WindowRewards(hist, a.stake,
                                                  a.startingPeriod, e.period, x)
                                   /\ b.stake = StakeAfter(a.stake, e.fraction)
                                   /\ b.startingPeriod = e.period
                 /\ lastCall'.r = AfterWalk(d, WalkPrefix(d, Len(WalkEvents(d))),
                                            lastCall'.del[2])]_vars

\* C28 witness: the walk has visited an event of period 2 and fraction 0.5
\* and then an event of period 1 and fraction 1: the second one was not
\* applied, the stake of 100 is left at 50 and rewards were returned
C28_Witness ==
    \E d \in DOMAIN startInfo :
        /\ Calculated(d)
        /\ lastCall.r.err = "nil"
        /\ \E x \in Denoms : lastCall.r.rewards[x] > 0
        /\ Len(WalkEvents(d)) = 2
        /\ WalkEvents(d)[1].period = 2
        /\ WalkEvents(d)[2].period = 1 /\ WalkEvents(d)[2].fraction = DecUnit
        /\ startInfo[d].previousPeriod < 1
        /\ WalkPrefix(d, 2).stake = 50 * DecUnit
        /\ WalkPrefix(d, 2).startingPeriod = 2

\* the last step was a call of initializeDelegation for delegator d
Initialized(d) == lastCall.op = "initialize" /\ lastCall.del = d

\* C29: initializeDelegation increments by exactly one the reference count
\* of the historical record of (current period - 1) and writes the starting
\* info {previousPeriod = current period - 1, stake = tokens of the
\* delegation's shares, truncated, height = current block height} for the
\* pair, replacing any prior record.  It changes nothing else: not the
\* current period and current rewards of the validator, no cumulative
\* ratio, no other reference count, not the outstanding rewards, not the
\* fee pool, not the starting info of other delegators.
C29_InitializeFrame ==
    [][\A d \in Delegators :
          Initialized(d)' =>
              LET p == curPeriod - 1
              IN  /\ p \in DOMAIN hist
                  /\ DOMAIN hist' = DOMAIN hist
                  /\ hist'[p].rc = hist[p].rc + 1
                  /\ hist'[p].ratio = hist[p].ratio
                  /\ \A q \in (DOMAIN hist) \ {p} : hist'[q] = hist[q]
                  /\ DOMAIN startInfo' = (DOMAIN startInfo) \cup {d}
                  /\ startInfo'[d].previousPeriod = p
                  /\ startInfo'[d].stake =
                        (delShares[d] * valTokens * DecUnit) \div valShares
                  /\ startInfo'[d].height = height
                  /\ \A e \in (DOMAIN startInfo) \ {d} : startInfo'[e] = startInfo[e]
                  /\ UNCHANGED <<curPeriod, curRewards, slashEvents, outstanding,
                                 communityPool, stakingVars, height, paid>>]_vars

\* C29 witness: the starting info of the pair was written by two calls in
\* a row, the second replacing what the first had written; the stake stored
\* is a truncated one (100 of 130 shares of 33 tokens: 25.38)
C29_Witness ==
    /\ Initialized("d1")
    /\ DOMAIN startInfo = {"d1"}
    /\ startInfo["d1"] = [previousPeriod |-> curPeriod - 1, stake |-> 2538,
                          height |-> height]
    /\ hist[curPeriod - 1].rc = 4

\* the rewards of the window from period p1 to period p2 for a stake of 1,
\* computed on the historical records rec
ClosedWindow(rec, p1, p2) ==
    calculateDelegationRewardsBetween([Store EXCEPT !.hist = rec], p1, p2, DecUnit)

\* C30: once the historical record of a period is written, no later
\* operation (reward allocation, period ending, delegation initialization,
\* slash, withdrawal) modifies its cumulative reward ratio: as long as the
\* record is stored only its reference count changes.  The only record a
\* step writes anew is the one of the period it closes, so a deleted record
\* does not come back, and the reward of a window between two stored
\* periods is the same before and after every step, whatever the step does
\* to the stake.
C30_RatioImmutable ==
    [][/\ \A p \in (DOMAIN hist) \cap (DOMAIN hist') :
             hist'[p].ratio = hist[p].ratio
       /\ \A p \in (DOMAIN hist') \ (DOMAIN hist) :
             p = curPeriod /\ curPeriod' = curPeriod + 1
       /\ \A p \in (DOMAIN hist) \ (DOMAIN hist') : hist[p].rc <= 2
       /\ \A p1, p2 \in (DOMAIN hist) \cap (DOMAIN hist') :
             p1 <= p2 => ClosedWindow(hist', p1, p2) = ClosedWindow(hist, p1, p2)]_vars

\* C30 witness: a record with a ratio above zero, written at least three
\* periods ago, is still stored for a delegation after rewards were
\* allocated, periods ended, the validator was slashed, a delegation was
\* initialized and another one withdrawn
C30_Witness ==
    /\ WithdrewOk
    /\ slashEvents # {}
    /\ \E p \in DOMAIN hist :
          /\ p <= curPeriod - 3
          /\ \E x \in Denoms : hist[p].ratio[x] > 0
          /\ \E d \in DOMAIN startInfo : startInfo[d].previousPeriod = p
          /\ hist[p].rc = 1

\* the reference count of the record of period p after the step; 0 when the
\* record is no longer stored
CountAfter(p) == IF p \in DOMAIN hist' THEN hist'[p].rc ELSE 0

\* C31: a withdrawal at the block height at which the starting info of the
\* pair was recorded returns no error and the single zero coin of the bond
\* denomination, requests no transfer and reports the zero coin in its
\* event; outstanding rewards and community pool are as before; the current
\* period is closed all the same (its record is written, the next period is
\* open with zero rewards), the record of the starting period loses the
\* reference of the pair (and the validator's, when it is the last closed
\* period), and the starting info of the pair is deleted while every other
\* starting info stays.
C31_SameHeightWithdrawal ==
    [][\A d \in Delegators :
          (Withdrew(d)' /\ HasDelegatorStartingInfo(Store, d)
              /\ startInfo[d].height = height)
          => /\ lastCall'.r.err = "nil"
             /\ lastCall'.r.coins = {[denom |-> DefaultBondDenom, amount |-> 0]}
             /\ lastCall'.r.event = lastCall'.r.coins
             /\ ~lastCall'.r.requested /\ ~lastCall'.r.sent
             /\ paid' = paid
             /\ outstanding' = outstanding
             /\ communityPool' = communityPool
             /\ curPeriod' = curPeriod + 1
             /\ curRewards' = ZeroCoins
             /\ curPeriod \in DOMAIN hist' /\ hist'[curPeriod].rc = 1
             /\ lastCall'.r.endingPeriod = curPeriod
             /\ CountAfter(startInfo[d].previousPeriod)
                   = hist[startInfo[d].previousPeriod].rc - 1
                       - (IF startInfo[d].previousPeriod = curPeriod - 1
                          THEN 1 ELSE 0)
             /\ d \notin DOMAIN startInfo'
             /\ \A e \in (DOMAIN startInfo) \ {d} :
                   e \in DOMAIN startInfo' /\ startInfo'[e] = startInfo[e]]_vars

\* C31 witness: a withdrawal at the height of the starting info returned the
\* zero coin and closed period AnyPeriod of a store that holds outstanding
\* rewards, and whose last closed period has a higher ratio than the starting
\* period, so that a reward was due had the final window been computed
C31_Witness ==
    /\ Withdrew("d1") /\ WithdrewOk
    /\ lastCall.r.info.height = height
    /\ lastCall.r.info.stake > 0
    /\ lastCall.r.coins = {[denom |-> DefaultBondDenom, amount |-> 0]}
    /\ ~lastCall.r.requested
    /\ "d1" \notin DOMAIN startInfo
    /\ curPeriod = lastCall.r.endingPeriod + 1
    /\ \E x \in Denoms :
          /\ outstanding[x] > 0
          /\ hist[lastCall.r.endingPeriod].ratio[x]
                 > hist[lastCall.r.info.previousPeriod].ratio[x]
    /\ hist[lastCall.r.info.previousPeriod].rc = 1

\* the arguments of the calls of calculateDelegationRewardsBetween that the
\* slash walk makes on the store s, in the order of the calls
RECURSIVE WalkCalls(_, _, _)
WalkCalls(s, events, acc) ==
    IF events = <<>> \/ acc.fault THEN <<>>
    ELSE IF Head(events).period > acc.startingPeriod
         THEN <<[startingPeriod |-> acc.startingPeriod,
                 endingPeriod   |-> Head(events).period,
                 stake          |-> acc.stake]>>
              \o WalkCalls(s, Tail(events), SlashWalk(s, <<Head(events)>>, acc))
         ELSE WalkCalls(s, Tail(events), acc)

\* the arguments of all the calls of calculateDelegationRewardsBetween that
\* CalculateDelegationRewards(s, d, endingPeriod, h) makes: those of the
\* slash walk, then the one of the final window
BetweenCalls(s, d, endingPeriod, h) ==
    IF s.info[d].height = h THEN <<>>
    ELSE Bind(Walked(s, d, h), LAMBDA w :
         Bind(StakeSanityCheck(s, d, w.stake), LAMBDA chk :
         WalkCalls(s, IterateValidatorSlashEventsBetween(s, s.info[d].height, h),
                   [rewards        |-> ZeroCoins,
                    stake          |-> s.info[d].stake,
                    startingPeriod |-> s.info[d].previousPeriod,
                    fault          |-> FALSE])
         \o (IF w.fault \/ chk.fault THEN <<>>
             ELSE <<[startingPeriod |-> w.startingPeriod,
                     endingPeriod   |-> endingPeriod,
                     stake          |-> chk.stake]>>)))

\* the three conditions a call of calculateDelegationRewardsBetween checks,
\* on records that are stored
SoundCall(s, c) ==
    /\ c.startingPeriod <= c.endingPeriod
    /\ c.stake >= 0
    /\ c.startingPeriod \in DOMAIN s.hist /\ c.endingPeriod \in DOMAIN s.hist
    /\ ~IsAnyNegative(CoinsSub(s.hist[c.endingPeriod].ratio,
                               s.hist[c.startingPeriod].ratio))

\* the calls of calculateDelegationRewardsBetween of a withdrawal for d in
\* the current state
WithdrawCalls(d) ==
    BetweenCalls(AfterPeriodEnding, d, curPeriod, height)

\* C32: when a period ending precedes every delegation initialization, slash
\* and withdrawal and every slash event records the period its own period
\* ending has closed, no withdrawal ends in a fatal fault: every call of
\* calculateDelegationRewardsBetween it makes (one per slash event of the
\* window, one for the final window) has startingPeriod <= endingPeriod, a
\* stake that is not negative and, between two stored records, a ratio
\* difference that is not negative; the stake check passes and the final
\* window is always reached when the starting info is of an earlier height.
C32_NoFatalFault ==
    [][\A d \in Delegators :
          (Withdrew(d)' /\ HasDelegatorStartingInfo(Store, d))
          => /\ lastCall'.r.err # "panic"
             /\ \A i \in 1 .. Len(WithdrawCalls(d)) :
                   SoundCall(AfterPeriodEnding, WithdrawCalls(d)[i])
             /\ startInfo[d].height < height
                   => /\ Len(WithdrawCalls(d)) >= 1
                      /\ WithdrawCalls(d)[Len(WithdrawCalls(d))].endingPeriod
                            = curPeriod]_vars

\* C32 witness: a withdrawal has succeeded with rewards above zero after two
\* slashes of the validator since the delegation was initialized: three
\* windows were computed, over the three periods closed since
C32_Witness ==
    /\ WithdrewOk
    /\ Cardinality(slashEvents) = 2
    /\ \A e \in slashEvents :
          /\ e.height > lastCall.r.info.height
          /\ e.period > lastCall.r.info.previousPeriod
    /\ lastCall.r.endingPeriod = lastCall.r.info.previousPeriod + 3
    /\ \E x \in Denoms : lastCall.r.rewardsRaw[x] > 0

\* the last step was a call of CalculateDelegationRewards for validator val
\* and delegator d
CalculatedFor(val, d) ==
    /\ lastCall.op = "calculateFor"
    /\ lastCall.del[1] = val /\ lastCall.del[2] = d

\* C33: the lists SLASHED_VALIDATORS and SLASHED_DELEGATORS never change the
\* outcome of CalculateDelegationRewards.  Whether or not the validator or
\* the delegator is listed and whether or not the excess is within 1.2% of
\* the current stake, an accumulated stake above the current stake by more
\* than 3 smallest decimal units ends the call in a fatal fault without
\* rewards; and every call returns what the call for the pair on neither
\* list returns on the same starting info, shares and slash events.
C33_AllowlistsNoEffect ==
    [][\A val \in Validators, d \in Delegators :
          CalculatedFor(val, d)'
          => /\ (/\ startInfo[d].height # height
                 /\ ~Walked(StoreOf(val), d, height).fault
                 /\ Walked(StoreOf(val), d, height).stake
                       > TokensFromShares(Store, delShares[d]) + MarginUnits)
                => lastCall'.r = [err |-> "panic", rewards |-> ZeroCoins]
             /\ (startInfo[d] = startInfo["d1"] /\ delShares[d] = delShares["d1"])
                => lastCall'.r = CalcResult(CalculateDelegationRewards(
                                     StoreOf(ValidatorAddr), "d1",
                                     lastCall'.del[3], height))]_vars

\* C33 witness: the call for the listed validator and the listed delegator
\* has ended in a fatal fault for an accumulated stake of 100.04 against a
\* current stake of 100, an excess within 1.2%
C33_Witness ==
    /\ CalculatedFor(OtherValidatorAddr, "d2")
    /\ OtherValidatorAddr \in SLASHED_VALIDATORS
    /\ "d2" \in SLASHED_DELEGATORS
    /\ startInfo["d2"].height # height
    /\ Walked(StoreOf(OtherValidatorAddr), "d2", height).stake = 100 * DecUnit + 4
    /\ TokensFromShares(Store, delShares["d2"]) = 100 * DecUnit
    /\ slashEvents # {}
    /\ lastCall.r = [err |-> "panic", rewards |-> ZeroCoins]

\* sorted by power, descending; equal powers by address, ascending
SortedByPower(valset) ==
    \A i, j \in 1 .. Len(valset) :
        i < j => \/ valset[i].Power > valset[j].Power
                 \/ /\ valset[i].Power = valset[j].Power
                    /\ valset[i].Address <= valset[j].Address

\* each address occurs at most once
UniqueAddresses(valset) ==
    \A i, j \in 1 .. Len(valset) :
        valset[i].Address = valset[j].Address => i = j

\* the power the validator set should hold for an address after the
\* updates: the power of its latest update, or else the power it had; 0
\* stands for an absent validator
PowerAfter(valset, valUpdates, address) ==
    LET ups == {i \in 1 .. Len(valUpdates) : valUpdates[i].Address = address}
        pos == IndexOfAddress(valset, address)
    IN  IF ups # {}
        THEN valUpdates[CHOOSE i \in ups : \A j \in ups : j <= i].Power
        ELSE IF pos = 0 THEN 0 ELSE valset[pos].Power

\* the members of new and their powers are those that the updates make of old
UpdatedMembers(old, updates, new) ==
    /\ \A i \in 1 .. Len(new) :
          /\ new[i].Power > 0
          /\ new[i].Power = PowerAfter(old, CollectUpdates(updates), new[i].Address)
    /\ \A pk \in PubKeys :
          PowerAfter(old, CollectUpdates(updates), Sum256Truncated(pk)) > 0
             => IndexOfAddress(new, Sum256Truncated(pk)) # 0

\* the step is a call of Update
Updated == lastCall'.op = "Update"

\* what Update keeps whatever the order: unique addresses, and the members
\* and powers that the updates ask for; an empty list changes nothing
UpdateMembership ==
    [][Updated
       => IF lastCall'.del = <<>>
          THEN activeValidatorSet' = activeValidatorSet
          ELSE /\ UniqueAddresses(activeValidatorSet')
               /\ UpdatedMembers(activeValidatorSet, lastCall'.del,
                                 activeValidatorSet')]_vars

\* C34: WeightedValidators.Update returns a validator set sorted by power in
\* descending order, equal powers by ascending address, that holds each
\* address at most once and no validator whose latest update had power 0:
\* power 0 removes a known validator and is ignored for an unknown one, a
\* positive power adds an unknown validator or overwrites the power of a
\* known one; an empty update list returns the set unchanged.
C34_UpdateSorted ==
    [][Updated
       => IF lastCall'.del = <<>>
          THEN activeValidatorSet' = activeValidatorSet
          ELSE /\ SortedByPower(activeValidatorSet')
               /\ UniqueAddresses(activeValidatorSet')
               /\ UpdatedMembers(activeValidatorSet, lastCall'.del,
                                 activeValidatorSet')]_vars

\* the entry at index i (counted from 0) of the history h was stored by the
\* call of Add number blockOffset + i, and h is not over its size
HistoryAligned(h) ==
    /\ Len(h.vals) <= h.maxElements
    /\ \A i \in 0 .. Len(h.vals) - 1 : h.blockOffset + i = h.vals[i + 1].call

\* C35: for a history created with maxElements >= 1 the number of entries
\* never exceeds maxElements; an Add on a full history drops the oldest
\* entry, appends the new one and increments blockOffset by one, an Add on
\* a history that is not full appends only; so blockOffset + i is always the
\* 1-based number of the Add call that stored the entry at index i, and it
\* is the height that MissBehaviour reports for that entry.
C35_HistoryWindow ==
    [][/\ lastCall'.op = "Add"
          => /\ IF Len(valsetHistory.vals) >= valsetHistory.maxElements
                THEN /\ Len(valsetHistory'.vals) = valsetHistory.maxElements
                     /\ \A k \in 1 .. Len(valsetHistory.vals) - 1 :
                           valsetHistory'.vals[k] = valsetHistory.vals[k + 1]
                     /\ valsetHistory'.blockOffset = valsetHistory.blockOffset + 1
                ELSE /\ Len(valsetHistory'.vals) = Len(valsetHistory.vals) + 1
                     /\ \A k \in 1 .. Len(valsetHistory.vals) :
                           valsetHistory'.vals[k] = valsetHistory.vals[k]
                     /\ valsetHistory'.blockOffset = valsetHistory.blockOffset
             /\ LET last == valsetHistory'.vals[Len(valsetHistory'.vals)]
                IN  /\ last.blockTime = lastCall'.del[1]
                    /\ last.vals = lastCall'.del[2]
                    /\ last.call = valsetHistory.adds + 1
             /\ valsetHistory'.maxElements = valsetHistory.maxElements
       /\ HistoryAligned(valsetHistory')
       /\ lastCall'.op = "MissBehaviour"
          => /\ valsetHistory' = valsetHistory
             /\ \A i \in 1 .. Len(lastCall'.r) :
                   LET n == lastCall'.del[i][1]
                   IN  /\ lastCall'.r[i].Height = valsetHistory.vals[n + 1].call
                       /\ lastCall'.r[i].Time = valsetHistory.vals[n + 1].blockTime]_vars

\* C35 witness: a history of 2 elements has seen 5 calls of Add: it holds
\* the entries of calls 4 and 5, its block offset is 4, and evidence was
\* reported with height 5 for the entry at index 1
C35_Witness ==
    /\ valsetHistory.maxElements = 2
    /\ valsetHistory.adds = 5
    /\ Len(valsetHistory.vals) = 2
    /\ valsetHistory.blockOffset = 4
    /\ valsetHistory.vals[1].call = 4 /\ valsetHistory.vals[2].call = 5
    /\ lastCall.op = "MissBehaviour"
    /\ Len(lastCall.r) = 1
    /\ lastCall.del[1][1] = 1
    /\ lastCall.r[1].Height = 5

\* the numbers of the logged operations of time t that were not delivered,
\* in the order of their insertion
PendingAt(l, t) ==
    SelectSeq([i \in 1 .. Len(l.log) |-> l.log[i].id],
              LAMBDA id : l.log[id].time = t /\ id \notin l.delivered)

\* the numbers of the operations due at block time t: scheduled for a time
\* of from .. t and not delivered, by time, then by insertion
RECURSIVE Due(_, _, _)
Due(l, from, t) ==
    IF from > t THEN <<>> ELSE PendingAt(l, from) \o Due(l, from + 1, t)

\* the numbers of the operations that the skip list of l holds
\* C36: FutureOpsRegistry delivers each scheduled operation exactly once and
\* never early.  FindScheduled(t) returns every operation added with a
\* non-zero time <= t that was not returned before, by non-decreasing time
\* and by insertion within a time, removes them and leaves the operations
\* scheduled after t in place; Add with a non-zero time and a factory
\* stores the operation; Add with a zero time stores nothing; Add with a
\* nil factory panics.
C36_DeliveredOnce ==
    [][/\ lastCall'.op = "FindScheduled"
          => /\ [i \in 1 .. Len(lastCall'.r.ops) |-> lastCall'.r.ops[i].id]
                   = Due(futureOpsReg, 1, lastCall'.del)
             /\ \A i \in 1 .. Len(futureOpsReg.log) :
                   (futureOpsReg.log[i].time > lastCall'.del
                       /\ i \notin futureOpsReg.delivered)
                   => \E e \in 1 .. Len(futureOpsReg'.list) :
                         /\ futureOpsReg'.list[e].key = futureOpsReg.log[i].time
                         /\ \E k \in 1 .. Len(futureOpsReg'.list[e].value) :
                               futureOpsReg'.list[e].value[k].id = i
       /\ lastCall'.op = "Add"
          => IF lastCall'.del[2] = Nil THEN lastCall'.r.err = "panic"
             ELSE IF IsZero(lastCall'.del[1])
             THEN /\ lastCall'.r.err = "-"
                  /\ futureOpsReg' = futureOpsReg
             ELSE /\ lastCall'.r.err = "-"
                  /\ Len(futureOpsReg'.log) = Len(futureOpsReg.log) + 1
                  /\ Due(futureOpsReg', 1, MaxTime)
                        = Due([futureOpsReg EXCEPT
                                  !.log = Append(@, [time |-> lastCall'.del[1],
                                                     id |-> Len(@) + 1])],
                              1, MaxTime)]_vars

====
